---- MODULE Spec2Model ----
(***************************************************************************)
(* Model of the Spark Integration Hub charm: the configuration builder     *)
(* (IntegrationHubConfig), the convergence manager                         *)
(* (IntegrationHubManager.update), the status resolver (get_app_status),   *)
(* the event handlers with their readiness gate, the peer-configuration    *)
(* key escaping (DotSerializer) and the add-config line parser.            *)
(*                                                                         *)
(* Python strings that the code only compares, merges or concatenates are  *)
(* TLA+ strings.  Strings the code scans character by character (the       *)
(* peer-configuration keys and the add-config input line) are sequences of *)
(* one-character strings.                                                  *)
(***************************************************************************)
EXTENDS Integers, Sequences, FiniteSets, TLC

VARIABLES
    \* ---- workload (pebble container and service) ----
    ready,          \* container.can_connect()
    running,        \* the integration-hub service is running
    file,           \* content of spark-properties.conf, or NoFile
    envFile,        \* SPARK_PROPERTIES_FILE entry of the environment, or NoEnv
    \* ---- external collaborators ----
    trusted,        \* verdict of KubernetesManager.trusted()
    s3ok,           \* verdict of S3Manager.verify()
    leader,         \* unit.is_leader()
    \* ---- relations ----
    s3,             \* S3 relation data, or NoRel
    azure,          \* Azure storage relation data, or NoRel
    pushgateway,    \* pushgateway relation data, or NoRel
    loki,           \* logging relation data, or NoRel
    peerRel,        \* the peer relation exists
    peerData,       \* application data bag of the peer relation
    clients,        \* client relation id -> data published on it, or NoRel
    \* ---- operator runtime ----
    queue,          \* events emitted and not yet delivered, oldest first
    deferred,       \* events deferred for redelivery
    unitStatus,
    appStatus,
    \* ---- observation of the last delivery ----
    lastEvent,      \* what the last step was and how it ended
    trace,          \* side effects of the last delivery, in order
    changes,        \* number of changes the environment has made
    \* ---- DotSerializer and parser harness ----
    str,            \* input string
    strOut          \* result of the last string operation

vars == <<ready, running, file, envFile, trusted, s3ok, leader, s3, azure,
          pushgateway, loki, peerRel, peerData, clients, queue, deferred,
          unitStatus, appStatus, lastEvent, trace, changes, str, strOut>>

hubVars == <<ready, running, file, envFile, trusted, s3ok, leader, s3, azure,
             pushgateway, loki, peerRel, peerData, clients, queue, deferred,
             unitStatus, appStatus, lastEvent, trace, changes>>

strVars == <<str, strOut>>

(***************************************************************************)
(* Bounds                                                                  *)
(***************************************************************************)
\* longest string given to the DotSerializer
MaxKeyLen == 4
\* longest line given to the add-config parser
MaxLineLen == 4
\* number of client relations
MaxClients == 2
\* number of changes the environment makes in one behaviour
MaxChanges == 1

(***************************************************************************)
(* Character strings                                                       *)
(***************************************************************************)
\* Python's None where the code can hold it in place of a string
None == "<None>"

RECURSIVE StrOf(_)
\* the Python string made of the characters of s
StrOf(s) == IF s = <<>> THEN "" ELSE Head(s) \o StrOf(Tail(s))

\* all character sequences over alphabet A of length at most n
SeqsUpTo(A, n) == UNION {[1..k -> A] : k \in 0..n}

RECURSIVE Replace(_, _, _)
\* str.replace(old, new): leftmost non-overlapping occurrences, old non-empty
Replace(s, old, new) ==
    IF Len(s) < Len(old) THEN s
    ELSE IF SubSeq(s, 1, Len(old)) = old
         THEN new \o Replace(SubSeq(s, Len(old) + 1, Len(s)), old, new)
         ELSE <<Head(s)>> \o Replace(Tail(s), old, new)

(***************************************************************************)
(* DotSerializer (common/utils.py)                                         *)
(***************************************************************************)
\* DotSerializer._SPECIAL_CHAR is the two-character string U+0E22 U+0E07
SPECIAL_CHAR == <<"U+0E22", "U+0E07">>
replacement_char == <<"_">>

serialize(input_string) ==
    Replace(Replace(input_string, replacement_char,
                    replacement_char \o replacement_char),
            <<".">>, replacement_char)

deserialize(input_string) ==
    Replace(Replace(Replace(input_string,
                            replacement_char \o replacement_char, SPECIAL_CHAR),
                    replacement_char, <<".">>),
            SPECIAL_CHAR, replacement_char)

(***************************************************************************)
(* ConfigurationActionEvents._parse_property_line                          *)
(***************************************************************************)
Whitespace == {" ", "\t"}

RECURSIVE LStrip(_)
LStrip(s) == IF s # <<>> /\ Head(s) \in Whitespace THEN LStrip(Tail(s)) ELSE s

RECURSIVE RStrip(_)
RStrip(s) == IF s # <<>> /\ s[Len(s)] \in Whitespace
             THEN RStrip(SubSeq(s, 1, Len(s) - 1)) ELSE s

\* str.strip()
Strip(s) == LStrip(RStrip(s))

\* the characters re.split("=| ", ...) splits on
SplitChars == {"=", " "}

RECURSIVE DropSeparators(_)
DropSeparators(s) ==
    IF s # <<>> /\ Head(s) \in SplitChars THEN DropSeparators(Tail(s)) ELSE s

RECURSIVE TakeToken(_)
TakeToken(s) ==
    IF s = <<>> \/ Head(s) \in SplitChars THEN <<>>
    ELSE <<Head(s)>> \o TakeToken(Tail(s))

\* list(filter(None, re.split("=| ", s))) is empty: taking [0] raises IndexError
NoToken(s) == DropSeparators(s) = <<>>

\* list(filter(None, re.split("=| ", s)))[0]
FirstToken(s) == TakeToken(DropSeparators(s))

\* position of the first "=" of s, 0 when there is none
RECURSIVE FirstEq(_)
FirstEq(s) == IF s = <<>> THEN 0
              ELSE IF Head(s) = "=" THEN 1
              ELSE LET r == FirstEq(Tail(s)) IN IF r = 0 THEN 0 ELSE r + 1

\* line.split("=", 1)[1]; the caller guarantees "=" in line
AfterFirstEq(line) == SubSeq(line, FirstEq(line) + 1, Len(line))

BeforeFirstEq(line) == SubSeq(line, 1, FirstEq(line) - 1)

\* the (key, value) pair, or the IndexError
_parse_property_line(line) ==
    IF NoToken(Strip(line)) THEN [raises |-> TRUE]
    ELSE [raises |-> FALSE,
          key    |-> Strip(FirstToken(Strip(line))),
          value  |-> Strip(AfterFirstEq(line))]

(***************************************************************************)
(* Relation data (core/domain.py, core/context.py)                         *)
(***************************************************************************)
\* no relation of that name in the model
NoRel == [rel |-> FALSE]

\* a Python dict with no entry
EmptyDict == [k \in {} |-> ""]

\* dict | dict: the right operand wins on a shared key (x and y stand for
\* the operands, each evaluated once)
Merge(a, b) ==
    CHOOSE m \in {[k \in DOMAIN x \cup DOMAIN y |->
                     IF k \in DOMAIN y THEN y[k] ELSE x[k]] :
                  x \in {a}, y \in {b}} : TRUE

truthy_always(v) == TRUE

\* Python truthiness of an optional string
Truthy(v) == v \notin {"", None}

\* S3ConnectionInfo.endpoint: relation_data.get("endpoint", None); the URL is
\* kept as the sequence of its characters, <<>> when the field is absent
S3Endpoint(d) == IF "endpoint" \in DOMAIN d THEN d["endpoint"] ELSE <<>>

\* the URL as one string, None when the field is absent
UrlStr(parts) == IF parts = <<>> THEN None ELSE StrOf(parts)

\* str.startswith(p)
StartsWith(s, p) == Len(s) >= Len(p) /\ SubSeq(s, 1, Len(p)) = p

\* p in s, for strings
Contains(s, p) ==
    \E i \in 1..(Len(s) - Len(p) + 1) : SubSeq(s, i, i + Len(p) - 1) = p

\* S3ConnectionInfo.log_dir / file_upload_path / warehouse_path
S3LogDir(d) == "s3a://" \o d["bucket"] \o "/" \o d["path"]
S3FileUploadPath(d) == "s3a://" \o d["bucket"] \o "/"
S3WarehousePath(d) == "s3a://" \o d["bucket"] \o "/warehouse"

\* str.lower() on the connection protocols of the model
Lower(p) == CASE p = "ABFSS" -> "abfss"
              [] p = "WASB" -> "wasb"
              [] OTHER -> p

\* AzureStorageConnectionInfo.connection_protocol
AzureProtocol(d) == Lower(d["connection-protocol"])

\* AzureStorageConnectionInfo.endpoint
AzureEndpoint(d) ==
    IF AzureProtocol(d) \in {"abfs", "abfss"}
    THEN AzureProtocol(d) \o "://" \o d["container"] \o "@"
         \o d["storage-account"] \o ".dfs.core.windows.net"
    ELSE IF AzureProtocol(d) \in {"wasb", "wasbs"}
    THEN AzureProtocol(d) \o "://" \o d["container"] \o "@"
         \o d["storage-account"] \o ".blob.core.windows.net"
    ELSE ""

\* AzureStorageConnectionInfo.path: relation_data.get("path", "")
AzurePath(d) == IF "path" \in DOMAIN d THEN d["path"] ELSE ""

\* AzureStorageConnectionInfo.log_dir / file_upload_path / warehouse_path
AzureLogDir(d) ==
    IF AzureEndpoint(d) # "" THEN AzureEndpoint(d) \o "/" \o AzurePath(d) ELSE ""
AzureFileUploadPath(d) ==
    IF AzureEndpoint(d) # "" THEN AzureEndpoint(d) \o "/" ELSE ""
AzureWarehousePath(d) ==
    IF AzureEndpoint(d) # "" THEN AzureEndpoint(d) \o "/warehouse" ELSE ""

\* PushGatewayInfo.endpoint: the url of push-endpoint without its scheme,
\* None when push-endpoint or its url is missing
PushGatewayEndpoint(d) ==
    IF "url" \in DOMAIN d
    THEN StrOf(Replace(Replace(d["url"], <<"https://">>, <<>>),
                       <<"http://">>, <<>>))
    ELSE None

\* LokiURL.url: the url of endpoint, None when missing or empty
LokiUrlOf(d) ==
    IF "url" \in DOMAIN d /\ d["url"] # "" THEN d["url"] ELSE None

\* character order of the characters that occur in stored peer keys
CharRank(c) == CASE c = "." -> 46 [] c = "_" -> 95 [] c = "a" -> 97
                 [] c = "b" -> 98 [] c = "e" -> 101 [] c = "f" -> 102
                 [] c = "k" -> 107 [] c = "o" -> 111 [] c = "r" -> 114
                 [] c = "v" -> 118 [] c = "y" -> 121 [] OTHER -> 0

RECURSIVE SeqLess(_, _)
\* s sorts before t (character by character)
SeqLess(s, t) ==
    IF t = <<>> THEN FALSE
    ELSE IF s = <<>> THEN TRUE
    ELSE IF Head(s) = Head(t) THEN SeqLess(Tail(s), Tail(t))
    ELSE CharRank(Head(s)) < CharRank(Head(t))

\* HubConfiguration.spark_configurations: the stored keys deserialized; of
\* two stored keys with the same deserialized form the one iterated last
\* (relation data is read in key order) provides the value
spark_configurations(data) ==
    LET Stored(k) == {q \in DOMAIN data : StrOf(deserialize(q)) = k}
        Last(k) == CHOOSE q \in Stored(k) :
                       \A r \in Stored(k) : r = q \/ SeqLess(r, q)
    IN  [k \in {StrOf(deserialize(q)) : q \in DOMAIN data} |-> data[Last(k)]]

(***************************************************************************)
(* IntegrationHubConfig (managers/integration_hub.py)                      *)
(*                                                                         *)
(* A configuration input cfg is the record of the constructor arguments:   *)
(* s3, azure_storage, pushgateway, loki_url (each NoRel for None, else     *)
(* [rel |-> TRUE, data |-> dict]), hub_conf (the peer data bag) and the    *)
(* verdict verify of S3Manager.verify() for that s3.                       *)
(***************************************************************************)
ssl_enabled_by_scheme_only(endpoint) ==
    IF endpoint = <<>> \/ StartsWith(endpoint, <<"h", "t", "t", "p", "s", ":">>)
    THEN "true" ELSE "false"

\* IntegrationHubConfig._ssl_enabled, on the characters of the endpoint URL
_ssl_enabled(endpoint) ==
    IF \/ endpoint = <<>>
       \/ StartsWith(endpoint, <<"h", "t", "t", "p", "s", ":">>)
       \/ Contains(endpoint, <<":", "4", "4", "3">>)
    THEN "true" ELSE "false"

\* IntegrationHubConfig._log_forwarding_conf
_log_forwarding_conf(cfg) ==
    IF ~cfg.loki_url.rel THEN EmptyDict
    ELSE LET url == LokiUrlOf(cfg.loki_url.data)
             u == IF Truthy(url) THEN url ELSE ""
         IN  [k \in {"spark.executorEnv.LOKI_URL",
                     "spark.kubernetes.driverEnv.LOKI_URL"} |-> u]

\* reading bucket or path of an S3 relation that lacks it raises KeyError
S3ConfRaises(cfg) ==
    /\ cfg.s3.rel
    /\ cfg.verify
    /\ ~({"bucket", "path"} \subseteq DOMAIN cfg.s3.data)

\* S3ConnectionInfo.access_key / secret_key: relation_data.get(..., "")
S3Field(d, f) == IF f \in DOMAIN d THEN d[f] ELSE ""

verify_not_consulted(cfg) == cfg.s3.rel

\* (s3 := self.s3) and s3.verify()
S3Verified(cfg) == cfg.s3.rel /\ cfg.verify

\* IntegrationHubConfig._s3_conf
_s3_conf(cfg) ==
    IF S3Verified(cfg)
    THEN LET d == cfg.s3.data
         IN  [k \in {"spark.hadoop.fs.s3a.path.style.access",
                     "spark.eventLog.enabled",
                     "spark.hadoop.fs.s3a.endpoint",
                     "spark.hadoop.fs.s3a.access.key",
                     "spark.hadoop.fs.s3a.secret.key",
                     "spark.eventLog.dir",
                     "spark.history.fs.logDirectory",
                     "spark.hadoop.fs.s3a.aws.credentials.provider",
                     "spark.hadoop.fs.s3a.connection.ssl.enabled",
                     "spark.kubernetes.file.upload.path",
                     "spark.sql.warehouse.dir"} |->
                CASE k = "spark.hadoop.fs.s3a.path.style.access" -> "true"
                  [] k = "spark.eventLog.enabled" -> "true"
                  [] k = "spark.hadoop.fs.s3a.endpoint" ->
                         IF Truthy(UrlStr(S3Endpoint(d)))
                         THEN UrlStr(S3Endpoint(d))
                         ELSE "https://s3.amazonaws.com"
                  [] k = "spark.hadoop.fs.s3a.access.key" ->
                         S3Field(d, "access-key")
                  [] k = "spark.hadoop.fs.s3a.secret.key" ->
                         S3Field(d, "secret-key")
                  [] k = "spark.eventLog.dir" -> S3LogDir(d)
                  [] k = "spark.history.fs.logDirectory" -> S3LogDir(d)
                  [] k = "spark.hadoop.fs.s3a.aws.credentials.provider" ->
                         "org.apache.hadoop.fs.s3a.SimpleAWSCredentialsProvider"
                  [] k = "spark.hadoop.fs.s3a.connection.ssl.enabled" ->
                         _ssl_enabled(S3Endpoint(d))
                  [] k = "spark.kubernetes.file.upload.path" ->
                         S3FileUploadPath(d)
                  [] OTHER -> S3WarehousePath(d)]
    ELSE EmptyDict

\* the accesses of _azure_storage_conf that raise KeyError: the protocol is
\* read first, container and storage-account when the protocol is a known
\* one, secret-key likewise
AzureConfRaises(cfg) ==
    /\ cfg.azure_storage.rel
    /\ LET d == cfg.azure_storage.data
       IN  \/ "connection-protocol" \notin DOMAIN d
           \/ /\ AzureProtocol(d) \in {"abfs", "abfss", "wasb", "wasbs"}
              /\ ~({"container", "storage-account", "secret-key"}
                     \subseteq DOMAIN d)

\* the account key entry of _azure_storage_conf
AzureAccountKey(d) ==
    IF AzureProtocol(d) \in {"abfss", "abfs"}
    THEN "spark.hadoop.fs.azure.account.key." \o d["storage-account"]
         \o ".dfs.core.windows.net" :> d["secret-key"]
    ELSE IF AzureProtocol(d) \in {"wasb", "wasbs"}
    THEN "spark.hadoop.fs.azure.account.key." \o d["storage-account"]
         \o ".blob.core.windows.net" :> d["secret-key"]
    ELSE EmptyDict

\* IntegrationHubConfig._azure_storage_conf (where it does not raise)
_azure_storage_conf(cfg) ==
    IF cfg.azure_storage.rel
    THEN LET d == cfg.azure_storage.data
             confs ==
               [k \in {"spark.eventLog.enabled",
                       "spark.eventLog.dir",
                       "spark.history.fs.logDirectory",
                       "spark.kubernetes.file.upload.path",
                       "spark.sql.warehouse.dir"} |->
                  CASE k = "spark.eventLog.enabled" -> "true"
                    [] k = "spark.eventLog.dir" -> AzureLogDir(d)
                    [] k = "spark.history.fs.logDirectory" -> AzureLogDir(d)
                    [] k = "spark.kubernetes.file.upload.path" ->
                           AzureFileUploadPath(d)
                    [] OTHER -> AzureWarehousePath(d)]
         IN  Merge(confs, AzureAccountKey(d))
    ELSE EmptyDict

\* IntegrationHubConfig._pushgateway_conf
_pushgateway_conf(cfg) ==
    IF cfg.pushgateway.rel
    THEN [k \in {"spark.metrics.conf.*.sink.prometheus.pushgateway-address",
                 "spark.metrics.conf.*.sink.prometheus.class",
                 "spark.metrics.conf.*.sink.prometheus.enable-dropwizard-collector",
                 "spark.metrics.conf.*.sink.prometheus.period",
                 "spark.metrics.conf.*.sink.prometheus.metrics-name-capture-regex",
                 "spark.metrics.conf.*.sink.prometheus.metrics-name-replacement"} |->
            CASE k = "spark.metrics.conf.*.sink.prometheus.pushgateway-address" ->
                     PushGatewayEndpoint(cfg.pushgateway.data)
              [] k = "spark.metrics.conf.*.sink.prometheus.class" ->
                     "org.apache.spark.banzaicloud.metrics.sink.PrometheusSink"
              [] k = "spark.metrics.conf.*.sink.prometheus.enable-dropwizard-collector" ->
                     "true"
              [] k = "spark.metrics.conf.*.sink.prometheus.period" -> "5"
              [] k = "spark.metrics.conf.*.sink.prometheus.metrics-name-capture-regex" ->
                     "([a-z0-9]*_[a-z0-9]*_[a-z0-9]*_)(.+)"
              [] OTHER -> "$2"]
    ELSE EmptyDict

\* IntegrationHubConfig._action_conf: hub_conf is always a HubConfiguration
_action_conf(cfg) == spark_configurations(cfg.hub_conf)

\* IntegrationHubConfig._base_conf
_base_conf == EmptyDict

\* building the configuration raises (KeyError on a missing relation field)
ConfigRaises(cfg) == S3ConfRaises(cfg) \/ AzureConfRaises(cfg)

to_dict_user_last(cfg) ==
    Merge(Merge(Merge(Merge(Merge(_base_conf,
        _s3_conf(cfg)),
        _azure_storage_conf(cfg)),
        _pushgateway_conf(cfg)),
        _log_forwarding_conf(cfg)),
        _action_conf(cfg))

\* IntegrationHubConfig.to_dict (where it does not raise)
to_dict(cfg) ==
    Merge(Merge(Merge(Merge(Merge(_base_conf,
        _s3_conf(cfg)),
        _azure_storage_conf(cfg)),
        _pushgateway_conf(cfg)),
        _action_conf(cfg)),
        _log_forwarding_conf(cfg))

\* every configuration key of the model, in the order sorted() gives them
SortedKeys == <<
    "a.a",
    "a_a",
    "foo",
    "foo.bar",
    "k",
    "key",
    "spark.eventLog.dir",
    "spark.eventLog.enabled",
    "spark.executorEnv.LOKI_URL",
    "spark.hadoop.fs.azure.account.key.acct.blob.core.windows.net",
    "spark.hadoop.fs.azure.account.key.acct.dfs.core.windows.net",
    "spark.hadoop.fs.s3a.access.key",
    "spark.hadoop.fs.s3a.aws.credentials.provider",
    "spark.hadoop.fs.s3a.connection.ssl.enabled",
    "spark.hadoop.fs.s3a.endpoint",
    "spark.hadoop.fs.s3a.path.style.access",
    "spark.hadoop.fs.s3a.secret.key",
    "spark.history.fs.logDirectory",
    "spark.kubernetes.driverEnv.LOKI_URL",
    "spark.kubernetes.file.upload.path",
    "spark.metrics.conf.*.sink.prometheus.class",
    "spark.metrics.conf.*.sink.prometheus.enable-dropwizard-collector",
    "spark.metrics.conf.*.sink.prometheus.metrics-name-capture-regex",
    "spark.metrics.conf.*.sink.prometheus.metrics-name-replacement",
    "spark.metrics.conf.*.sink.prometheus.period",
    "spark.metrics.conf.*.sink.prometheus.pushgateway-address",
    "spark.sql.warehouse.dir" >>

\* the key=value lines of a dict: sorted keys, falsy values dropped (x
\* stands for the dict, evaluated once)
Lines(d) ==
    CHOOSE ls \in {LET IsKept(k) == k \in DOMAIN x /\ Truthy(x[k])
                       kept == SelectSeq(SortedKeys, IsKept)
                   IN  [i \in 1..Len(kept) |-> kept[i] \o "=" \o x[kept[i]]] :
                   x \in {d}} : TRUE

\* IntegrationHubConfig.contents (where to_dict does not raise): the text
\* whose lines, joined by "\n", are Lines; kept as the sequence of its lines
contents(cfg) == Lines(to_dict(cfg))

(***************************************************************************)
(* Context (core/context.py) and the status resolver (events/base.py)      *)
(***************************************************************************)
\* a ConnectionInfo object over the data of relation r, NoRel for None
Info(r) == IF r.rel THEN [rel |-> TRUE, data |-> r.data] ELSE NoRel

\* Context.s3: an S3ConnectionInfo whenever the relation exists
ContextS3 == Info(s3)

\* Context.azure_storage: None when the relation or its data is missing
ContextAzureStorage ==
    IF azure.rel /\ DOMAIN azure.data # {} THEN Info(azure) ELSE NoRel

\* Context.pushgateway
ContextPushgateway == Info(pushgateway)

\* Context.loki_url
ContextLokiUrl == Info(loki)

\* Context.hub_configurations.relation_data: {} without a peer relation
ContextHubConfigurations == IF peerRel THEN peerData ELSE EmptyDict

get_app_status_active_first(s3Arg, azureArg, isRunning) ==
    IF ~ready THEN "WAITING_PEBBLE"
    ELSE IF ~trusted THEN "NOT_TRUSTED"
    ELSE IF s3Arg.rel /\ azureArg.rel THEN "MULTIPLE_OBJECT_STORAGE_RELATIONS"
    ELSE IF ~isRunning THEN "NOT_RUNNING"
    ELSE IF s3Arg.rel /\ ~s3ok THEN "INVALID_S3_CREDENTIALS"
    ELSE "ACTIVE"

get_app_status_reads_context(s3Arg, azureArg, isRunning) ==
    IF ~ready THEN "WAITING_PEBBLE"
    ELSE IF ~trusted THEN "NOT_TRUSTED"
    ELSE IF ContextS3.rel /\ ContextAzureStorage.rel
    THEN "MULTIPLE_OBJECT_STORAGE_RELATIONS"
    ELSE IF ContextS3.rel /\ ~s3ok THEN "INVALID_S3_CREDENTIALS"
    ELSE IF ~isRunning THEN "NOT_RUNNING"
    ELSE "ACTIVE"

get_app_status_credentials_first(s3Arg, azureArg, isRunning) ==
    IF ~ready THEN "WAITING_PEBBLE"
    ELSE IF ~trusted THEN "NOT_TRUSTED"
    ELSE IF s3Arg.rel /\ ~s3ok THEN "INVALID_S3_CREDENTIALS"
    ELSE IF s3Arg.rel /\ azureArg.rel THEN "MULTIPLE_OBJECT_STORAGE_RELATIONS"
    ELSE IF ~isRunning THEN "NOT_RUNNING"
    ELSE "ACTIVE"

\* BaseEventHandler.get_app_status(s3, azure_storage, pushgateway), with the
\* workload activity it would read; the pushgateway argument is not used
get_app_status(s3Arg, azureArg, isRunning) ==
    IF ~ready THEN "WAITING_PEBBLE"
    ELSE IF ~trusted THEN "NOT_TRUSTED"
    ELSE IF s3Arg.rel /\ azureArg.rel THEN "MULTIPLE_OBJECT_STORAGE_RELATIONS"
    ELSE IF s3Arg.rel /\ ~s3ok THEN "INVALID_S3_CREDENTIALS"
    ELSE IF ~isRunning THEN "NOT_RUNNING"
    ELSE "ACTIVE"

(***************************************************************************)
(* IntegrationHubManager.update (managers/integration_hub.py)              *)
(***************************************************************************)
ClientIds == 1..MaxClients

NoFile == [exists |-> FALSE]
NoEnv == "<unset>"
SparkPropertiesPath == "/etc/hub/conf/spark-properties.conf"
NoProps == [set |-> FALSE]
NoCfg == [none |-> TRUE]

Op(name) == [op |-> name, id |-> 0]
Publish(c) == [op |-> "publish", id |-> c]

\* Context.service_accounts: one ServiceAccount per client relation
service_accounts == {c \in ClientIds : clients[c].rel}

\* ServiceAccount.spark_properties: the published dict, {} when the field
\* was never set
spark_properties(c) ==
    IF clients[c].props.set THEN clients[c].props.value ELSE EmptyDict

UpdateCfg_reads_context(set_s3_none, set_azure_storage_none, set_pushgateway_none, set_loki_url_none) ==
    [s3            |-> ContextS3,
     azure_storage |-> ContextAzureStorage,
     pushgateway   |-> ContextPushgateway,
     loki_url      |-> ContextLokiUrl,
     hub_conf      |-> ContextHubConfigurations,
     verify        |-> s3ok]

UpdateCfg_keeps_failed_verdict(set_s3_none, set_azure_storage_none, set_pushgateway_none, set_loki_url_none) ==
    [s3            |-> IF set_s3_none THEN NoRel ELSE ContextS3,
     azure_storage |-> IF set_azure_storage_none THEN NoRel
                       ELSE ContextAzureStorage,
     pushgateway   |-> IF set_pushgateway_none THEN NoRel
                       ELSE ContextPushgateway,
     loki_url      |-> IF set_loki_url_none THEN NoRel ELSE ContextLokiUrl,
     hub_conf      |-> ContextHubConfigurations,
     verify        |-> s3ok /\ unitStatus # "INVALID_S3_CREDENTIALS"]

\* the configuration inputs update reads from the context
UpdateCfg(set_s3_none, set_azure_storage_none, set_pushgateway_none, set_loki_url_none) ==
    [s3            |-> IF set_s3_none THEN NoRel ELSE ContextS3,
     azure_storage |-> IF set_azure_storage_none THEN NoRel
                       ELSE ContextAzureStorage,
     pushgateway   |-> IF set_pushgateway_none THEN NoRel
                       ELSE ContextPushgateway,
     loki_url      |-> IF set_loki_url_none THEN NoRel ELSE ContextLokiUrl,
     hub_conf      |-> ContextHubConfigurations,
     verify        |-> s3ok]

compare_always_rewrites(content) == TRUE

compare_only_when_missing(content) == ~file.exists

compare_missing_as_empty(content) ==
    (IF file.exists THEN file.content ELSE <<>>) # content

\* IntegrationHubManager._compare_and_update_file: TRUE when it rewrites
_compare_and_update_file(content) ==
    ~file.exists \/ file.content # content

RECURSIVE PublishOps(_, _)
\* the publications of the fan-out loop over the stale clients
PublishOps(stale, c) ==
    IF c > MaxClients THEN <<>>
    ELSE (IF c \in stale THEN <<Publish(c)>> ELSE <<>>)
         \o PublishOps(stale, c + 1)

\* leadership as it was when the event was delivered
FanOut_cached_leadership(d, isLeader) ==
    IF leader
    THEN {c \in service_accounts : spark_properties(c) # d}
    ELSE {}

\* the loop stops after the first client it writes
FanOut_first_only(d, isLeader) ==
    IF isLeader
    THEN {c \in service_accounts :
            /\ spark_properties(c) # d
            /\ \A b \in service_accounts : spark_properties(b) # d => c <= b}
    ELSE {}

\* every client is written, the up-to-date ones too
FanOut_all(d, isLeader) ==
    IF isLeader THEN service_accounts ELSE {}

\* the clients the fan-out loop of update publishes to: none unless the unit
\* is leader, else those whose published dict differs from the built one d
FanOut(d, isLeader) ==
    IF isLeader
    THEN {c \in service_accounts : spark_properties(c) # d}
    ELSE {}

Converge_write_without_restart(d, content, rewrite, stale) ==
    [raised  |-> FALSE,
     running |-> FALSE,
     file    |-> IF rewrite THEN [exists |-> TRUE, content |-> content]
                 ELSE file,
     envFile |-> envFile,
     clients |-> [c \in ClientIds |->
                    IF c \in stale
                    THEN [clients[c] EXCEPT !.props =
                            [set |-> TRUE, value |-> d]]
                    ELSE clients[c]],
     trace   |-> <<Op("stop"), Op("build")>>
                 \o (IF rewrite THEN <<Op("write")>> ELSE <<>>)
                 \o PublishOps(stale, 1)]

Converge_restart_before_write(d, content, rewrite, stale) ==
    [raised  |-> rewrite /\ ~file.exists,
     running |-> rewrite /\ file.exists,
     file    |-> IF rewrite /\ file.exists
                 THEN [exists |-> TRUE, content |-> content]
                 ELSE file,
     envFile |-> IF rewrite THEN SparkPropertiesPath ELSE envFile,
     clients |-> clients,
     trace   |-> <<Op("stop"), Op("build")>>
                 \o (IF rewrite
                     THEN <<Op("set_environment"), Op("restart")>>
                          \o (IF file.exists THEN <<Op("write")>> ELSE <<>>)
                     ELSE <<>>)]

\* update once the configuration is built: the file is rewritten when
\* rewrite holds, then d is published to the clients in stale
Converge(d, content, rewrite, stale) ==
    [raised  |-> FALSE,
     running |-> rewrite,
     file    |-> IF rewrite THEN [exists |-> TRUE, content |-> content]
                 ELSE file,
     envFile |-> IF rewrite THEN SparkPropertiesPath ELSE envFile,
     clients |-> [c \in ClientIds |->
                    IF c \in stale
                    THEN [clients[c] EXCEPT !.props =
                            [set |-> TRUE, value |-> d]]
                    ELSE clients[c]],
     \* "build" stands for config.contents, evaluated for the comparison
     trace   |-> <<Op("stop"), Op("build")>>
                 \o (IF rewrite
                     THEN <<Op("write"), Op("set_environment"), Op("restart")>>
                     ELSE <<>>)
                 \o PublishOps(stale, 1)]

\* the steps of update after workload.stop(), on the built dict d and the
\* built contents
Reconcile(d, content, isLeader) ==
    Converge(d, content, _compare_and_update_file(content),
             FanOut(d, isLeader))

\* the effect of update on the workload and on the clients; isLeader is
\* unit.is_leader() as read at the fan-out
update(cfg, isLeader) ==
    IF ConfigRaises(cfg)
    THEN \* stop() has run, then building the contents raised
         [raised  |-> TRUE, running |-> FALSE, file |-> file,
          envFile |-> envFile, clients |-> clients, trace |-> <<Op("stop")>>]
    ELSE Reconcile(to_dict(cfg), contents(cfg), isLeader)

NoUpdate_clears_environment ==
    [raised |-> FALSE, running |-> running, file |-> file,
     envFile |-> NoEnv, clients |-> clients, trace |-> <<>>]

\* a handler body that does not call update
NoUpdate ==
    [raised |-> FALSE, running |-> running, file |-> file,
     envFile |-> envFile, clients |-> clients, trace |-> <<>>]

(***************************************************************************)
(* Relation data of the model                                              *)
(***************************************************************************)
\* pieces of endpoint URLs, character by character
Https == <<"h", "t", "t", "p", "s", ":">>
Http == <<"h", "t", "t", "p", ":">>
SlashSlash == <<"/", "/">>
ExampleHost == <<"s", "3", ".", "e", "x", "a", "m", "p", "l", "e", ".", "c", "o", "m">>
MinioHost == <<"m", "i", "n", "i", "o", ":", "9", "0", "0", "0">>

S3Full ==
    [f \in {"endpoint", "access-key", "secret-key", "bucket", "path"} |->
       CASE f = "endpoint" -> Https \o SlashSlash \o ExampleHost
         [] f = "access-key" -> "AK"
         [] f = "secret-key" -> "SK"
         [] f = "bucket" -> "b"
         [] OTHER -> "p"]

\* plain http endpoint, access-key not provided
S3NoAccessKey ==
    [f \in {"endpoint", "secret-key", "bucket", "path"} |->
       CASE f = "endpoint" -> Http \o SlashSlash \o MinioHost
         [] f = "secret-key" -> "SK"
         [] f = "bucket" -> "b"
         [] OTHER -> "p"]

S3Data == {S3Full, S3NoAccessKey}

AzureFull ==
    [f \in {"container", "storage-account", "connection-protocol",
            "secret-key", "path"} |->
       CASE f = "container" -> "c"
         [] f = "storage-account" -> "acct"
         [] f = "connection-protocol" -> "abfss"
         [] f = "secret-key" -> "AZK"
         [] OTHER -> "p"]

\* the secret has not been propagated yet
AzureNoSecret ==
    [f \in {"container", "storage-account", "connection-protocol"} |->
       CASE f = "container" -> "c"
         [] f = "storage-account" -> "acct"
         [] OTHER -> "wasb"]

AzureData == {AzureFull, AzureNoSecret, EmptyDict}

PushgatewayFull == [f \in {"url"} |-> <<"http://", "pg:9091">>]

PushgatewayData == {PushgatewayFull, EmptyDict}

LokiFull == [f \in {"url"} |-> "http://loki:3100/loki/api/v1/push"]

LokiData == {LokiFull, EmptyDict}

\* lines given to add-config
AddLines == {<<"k", "=", "v">>, <<"a", ".", "a", "=", "v">>,
             <<"a", "_", "a", "=", "v">>, <<"k">>}

Live(d) == [rel |-> TRUE, dying |-> FALSE, data |-> d]

NoStatus == "unknown"

\* a client relation whose request has not been handled; skip is the
\* skip-creation flag of the request
Joined == [rel |-> TRUE, granted |-> FALSE, props |-> NoProps, skip |-> FALSE]

JoinedSkipping == [Joined EXCEPT !.skip = TRUE]

(***************************************************************************)
(* Event handlers (events/*.py)                                            *)
(***************************************************************************)
\* the record kept of a step that is no update pass
Step(name, outcome, isLeader) ==
    [name |-> name, outcome |-> outcome, cfg |-> NoCfg, isLeader |-> isLeader,
     wasLeader |-> leader, repeats |-> FALSE, before |-> <<>>, src |-> "none",
     published |-> <<>>]

\* Where the delivered event comes from: the head of the queue, the deferred
\* events, or (update-status) the timer of the runtime.
Delivery(ev, src, isDeferred) ==
    \/ /\ src = "queue"
       /\ queue # <<>> /\ Head(queue) = ev
       /\ queue' = Tail(queue)
       /\ deferred' = IF isDeferred THEN deferred \cup {ev} ELSE deferred
    \/ /\ src = "deferred"
       /\ ev \in deferred
       /\ queue' = queue
       /\ deferred' = IF isDeferred THEN deferred ELSE deferred \ {ev}
    \/ /\ src = "timer"
       /\ queue' = queue
       /\ deferred' = deferred

\* unit.is_leader() as a handler reads it: leadership may have moved since
\* the event was delivered
ReadsLeader(isLeader) ==
    \/ isLeader = leader /\ changes' = changes
    \/ isLeader # leader /\ changes < MaxChanges /\ changes' = changes + 1

writes_app_status_on_every_unit(sets, isLeader) == sets

\* charm.app.status is assigned only under charm.unit.is_leader()
writes_app_status(sets, isLeader) == sets /\ isLeader

\* The end of one delivery: u is what the body did (NoUpdate when it did
\* not call update), cfg the inputs update was given.
\*   status      "computed": wrapped by compute_status (outermost);
\*               "manual": the body sets the statuses after update;
\*               "none": the handler sets no status
\*   s3Arg, azureArg   the arguments given to get_app_status
\*   src         where the event was delivered from
Outcome(ev, src, isDeferred, u, cfg, status, s3Arg, azureArg, isLeader) ==
    LET sets == /\ ~u.raised
                /\ \/ status = "computed"
                   \/ status = "manual" /\ ~isDeferred
        st == get_app_status(s3Arg, azureArg, u.running)
    IN  /\ running' = u.running
        /\ file' = u.file
        /\ envFile' = u.envFile
        /\ clients' = u.clients
        /\ trace' = u.trace
        /\ leader' = isLeader
        /\ unitStatus' = IF sets THEN st ELSE unitStatus
        /\ appStatus' = IF writes_app_status(sets, isLeader) THEN st
                        ELSE appStatus
        /\ lastEvent' =
             [name      |-> ev,
              outcome   |-> IF isDeferred THEN "deferred"
                            ELSE IF u.raised THEN "raised" ELSE "done",
              cfg       |-> cfg,
              isLeader  |-> isLeader,
              wasLeader |-> leader,
              \* the step before was a completed pass with the same inputs
              repeats   |-> /\ cfg # NoCfg /\ ~u.raised
                            /\ lastEvent.outcome = "done"
                            /\ lastEvent.cfg = cfg,
              before    |-> trace,
              src       |-> src,
              \* the statuses a storage gone event found published
              published |-> IF ev \in {"s3_gone", "azure_gone"}
                            THEN <<unitStatus, appStatus>> ELSE <<>>]
        /\ UNCHANGED <<ready, trusted, s3ok, peerRel, peerData>>
        /\ UNCHANGED strVars

defer_always_runs(gated) == FALSE

\* defer_when_not_ready: the wrapped handler is deferred, and its body not
\* run, when workload.ready() is false
defer_when_not_ready(gated) == gated /\ ~ready

\* One delivery of event ev to its handler.
\*   gated       the handler is wrapped by defer_when_not_ready
\*   callsUpdate the body calls update, with the inputs cfg
Handle(ev, src, gated, callsUpdate, cfg, status, s3Arg, azureArg) ==
    \E isLeader \in BOOLEAN :
      /\ Delivery(ev, src, defer_when_not_ready(gated))
      /\ ReadsLeader(isLeader)
      /\ \E u \in {IF ~defer_when_not_ready(gated) /\ callsUpdate
                    THEN update(cfg, isLeader) ELSE NoUpdate} :
           Outcome(ev, src, defer_when_not_ready(gated), u,
                   IF ~defer_when_not_ready(gated) /\ callsUpdate
                   THEN cfg ELSE NoCfg,
                   status, s3Arg, azureArg, isLeader)

\* the relation is gone once its gone/broken event has been delivered
Gone(r) == IF r.rel /\ r.dying THEN NoRel ELSE r

Sources == {"queue", "deferred"}

\* S3Events._on_s3_credential_changed
S3CredentialChanged ==
    /\ \E src \in Sources :
         Handle("s3_changed", src, TRUE, TRUE,
                UpdateCfg(FALSE, FALSE, FALSE, FALSE),
                "computed", ContextS3, ContextAzureStorage)
    /\ UNCHANGED <<s3, azure, pushgateway, loki>>

\* S3Events._on_s3_credential_gone
S3CredentialGone ==
    /\ \E src \in Sources :
         Handle("s3_gone", src, TRUE, TRUE, UpdateCfg(TRUE, FALSE, FALSE, FALSE),
                "manual", NoRel, ContextAzureStorage)
    /\ s3' = Gone(s3)
    /\ UNCHANGED <<azure, pushgateway, loki>>

\* AzureStorageEvents._on_azure_storage_connection_info_changed
AzureStorageChanged ==
    /\ \E src \in Sources :
         Handle("azure_changed", src, TRUE, TRUE,
                UpdateCfg(FALSE, FALSE, FALSE, FALSE),
                "computed", ContextS3, ContextAzureStorage)
    /\ UNCHANGED <<s3, azure, pushgateway, loki>>

\* AzureStorageEvents._on_azure_storage_connection_info_gone
AzureStorageGone ==
    /\ \E src \in Sources :
         Handle("azure_gone", src, TRUE, TRUE,
                UpdateCfg(FALSE, TRUE, FALSE, FALSE),
                "manual", ContextS3, NoRel)
    /\ azure' = Gone(azure)
    /\ UNCHANGED <<s3, pushgateway, loki>>

\* PrometheusPushgatewayRequirer.is_ready: the push endpoint has been given
PushgatewayIsReady == pushgateway.rel /\ "url" \in DOMAIN pushgateway.data

\* PushgatewayEvents._on_pushgateway_changed
PushgatewayChanged ==
    /\ \E src \in Sources :
         Handle("pushgateway_changed", src, TRUE, PushgatewayIsReady,
                UpdateCfg(FALSE, FALSE, FALSE, FALSE),
                "computed", ContextS3, ContextAzureStorage)
    /\ UNCHANGED <<s3, azure, pushgateway, loki>>

\* PushgatewayEvents._on_pushgateway_gone
PushgatewayGone ==
    /\ \E src \in Sources :
         Handle("pushgateway_gone", src, TRUE, TRUE,
                UpdateCfg(FALSE, FALSE, TRUE, FALSE),
                "manual", ContextS3, ContextAzureStorage)
    /\ pushgateway' = Gone(pushgateway)
    /\ UNCHANGED <<s3, azure, loki>>

\* LoggingEvents._on_update_loki_url
LokiUrlUpdated ==
    /\ \E src \in Sources :
         Handle("logging_changed", src, TRUE, TRUE,
                UpdateCfg(FALSE, FALSE, FALSE, FALSE),
                "computed", ContextS3, ContextAzureStorage)
    /\ UNCHANGED <<s3, azure, pushgateway, loki>>

\* LoggingEvents._on_remove_loki_url
LokiUrlRemoved ==
    /\ \E src \in Sources :
         Handle("logging_gone", src, TRUE, TRUE,
                UpdateCfg(FALSE, FALSE, FALSE, TRUE),
                "none", ContextS3, ContextAzureStorage)
    /\ loki' = Gone(loki)
    /\ UNCHANGED <<s3, azure, pushgateway>>

\* IntegrationHubEvents._on_integration_hub_pebble_ready
PebbleReady ==
    /\ \E src \in Sources :
         Handle("pebble_ready", src, TRUE, TRUE,
                UpdateCfg(FALSE, FALSE, FALSE, FALSE),
                "computed", ContextS3, ContextAzureStorage)
    /\ UNCHANGED <<s3, azure, pushgateway, loki>>

\* IntegrationHubEvents._on_config_changed
ConfigChanged ==
    /\ \E src \in Sources :
         Handle("config_changed", src, TRUE, TRUE,
                UpdateCfg(FALSE, FALSE, FALSE, FALSE),
                "computed", ContextS3, ContextAzureStorage)
    /\ UNCHANGED <<s3, azure, pushgateway, loki>>

UpdateEvent_gated ==
    /\ Handle("update_status", "timer", TRUE, TRUE,
              UpdateCfg(FALSE, FALSE, FALSE, FALSE),
              "computed", ContextS3, ContextAzureStorage)
    /\ UNCHANGED <<s3, azure, pushgateway, loki>>

\* IntegrationHubEvents._update_event (update-status and install)
UpdateEvent ==
    /\ Handle("update_status", "timer", FALSE, FALSE, NoCfg,
              "computed", ContextS3, ContextAzureStorage)
    /\ UNCHANGED <<s3, azure, pushgateway, loki>>

(***************************************************************************)
(* Administrative actions (events/configuration_actions.py)                *)
(***************************************************************************)
DictSet_keeps_empty(d, k, v) ==
    [x \in DOMAIN d \cup {k} |-> IF x = k THEN v ELSE d[x]]

\* dict.update({k: v}) on a relation data bag: an empty value deletes the key
DictSet(d, k, v) ==
    IF v = ""
    THEN [x \in DOMAIN d \ {k} |-> d[x]]
    ELSE [x \in DOMAIN d \cup {k} |-> IF x = k THEN v ELSE d[x]]

\* what an action or a provider handler leaves alone
NoPass ==
    /\ trace' = <<>>
    /\ UNCHANGED <<ready, running, file, envFile, trusted, s3ok, leader, s3,
                   azure, pushgateway, loki, peerRel, queue, deferred,
                   unitStatus, appStatus>>
    /\ UNCHANGED strVars

peer_relation_always_there == TRUE

\* Context.peer_relation: the peer relation, None until it is created
ContextPeerRelation == peerRel

line_always_has_eq(line) == TRUE

\* "=" in config
HasEq(line) == \E i \in 1..Len(line) : line[i] = "="

\* event.fail(msg): the action fails and the data bag is left alone
ActionFails(msg) == [outcome |-> "failed", message |-> msg, peerData |-> peerData]

\* an exception leaves the handler: the hook ends in error, nothing written
ActionRaises == [outcome |-> "raised", message |-> "", peerData |-> peerData]

\* event.set_results after the data bag took the value data
ActionDone(data) == [outcome |-> "done", message |-> "", peerData |-> data]

\* the two checks every action starts with
ActionRefused ==
    IF ~ready THEN ActionFails("Charm is not ready")
    ELSE IF ~ContextPeerRelation THEN ActionFails("Peer relation is not ready")
    ELSE ActionDone(peerData)

\* ConfigurationActionEvents._add_config_action; only the leader may write
\* the application data bag (the write raises on another unit)
_add_config_action(line) ==
    IF ActionRefused.outcome = "failed" THEN ActionRefused
    ELSE IF HasEq(line)
    THEN IF _parse_property_line(line).raises \/ ~leader THEN ActionRaises
         ELSE ActionDone(DictSet(peerData, _parse_property_line(line).key,
                                 StrOf(_parse_property_line(line).value)))
    ELSE ActionFails("Configuration cannot be applied")

\* ConfigurationActionEvents._remove_config_action
_remove_config_action(key) ==
    IF ActionRefused.outcome = "failed" THEN ActionRefused
    ELSE IF key \in DOMAIN peerData
    THEN IF ~leader THEN ActionRaises ELSE ActionDone(DictSet(peerData, key, ""))
    ELSE ActionFails("Configuration is not present")

\* ConfigurationActionEvents._clear_config_action: clear() deletes the keys
\* one by one, so it writes (and needs leadership) only when there is a key
_clear_config_action ==
    IF ActionRefused.outcome = "failed" THEN ActionRefused
    ELSE IF DOMAIN peerData # {} /\ ~leader THEN ActionRaises
    ELSE ActionDone(EmptyDict)

\* ConfigurationActionEvents._list_config_action
_list_config_action ==
    IF ActionRefused.outcome = "failed" THEN ActionRefused
    ELSE ActionDone(peerData)

\* what is kept of the step before an action
PrevOf(e) ==
    [name    |-> e.name,
     outcome |-> e.outcome,
     arg     |-> IF "arg" \in DOMAIN e THEN e.arg ELSE <<>>,
     prior   |-> IF "prior" \in DOMAIN e THEN e.prior ELSE EmptyDict]

\* One run of an action handler with parameter arg and result r. An action
\* event cannot be deferred; the handlers touch the peer data bag only.
RunAction(name, arg, r, results) ==
    /\ peerData' = r.peerData
    /\ lastEvent' = [arg |-> arg, message |-> r.message, prior |-> peerData,
                     results |-> results]
                    @@ Step(name, r.outcome, leader)
    /\ clients' = clients
    /\ NoPass

\* add-config, within the budget of changes
AddConfig ==
    \E line \in AddLines :
      /\ changes < MaxChanges
      /\ changes' = changes + 1
      /\ RunAction("add_config", line, _add_config_action(line), EmptyDict)

\* the keys given to remove-config
RemoveKeys == {<<"k">>, <<"a", ".", "a">>, <<"a", "_", "a">>}

\* remove-config
RemoveConfig ==
    \E key \in RemoveKeys :
      /\ RunAction("remove_config", key, _remove_config_action(key),
                   [prev |-> PrevOf(lastEvent)])
      /\ UNCHANGED changes

\* clear-config
ClearConfig ==
    /\ RunAction("clear_config", <<>>, _clear_config_action, EmptyDict)
    /\ UNCHANGED changes

\* list-config: the results are HubConfiguration.spark_configurations
ListConfig ==
    /\ RunAction("list_config", <<>>, _list_config_action,
                 IF _list_config_action.outcome = "done"
                 THEN spark_configurations(peerData) ELSE EmptyDict)
    /\ UNCHANGED changes

(***************************************************************************)
(* Service accounts (events/provider.py)                                   *)
(***************************************************************************)
ClientOp(name, c) == [op |-> name, id |-> c]

requested_ignores_failures(c, createOk, templateOk) ==
    [raised  |-> FALSE,
     granted |-> TRUE,
     failed  |-> "none",
     trace   |-> <<ClientOp("set_service_account", c),
                   ClientOp("set_namespace", c)>>]

requested_retries_creation(c, createOk, templateOk) ==
    [raised  |-> FALSE,
     granted |-> leader,
     failed  |-> IF ~leader THEN "none"
                 ELSE IF ~createOk THEN "create"
                 ELSE IF ~templateOk THEN "template" ELSE "none",
     trace   |-> IF ~leader THEN <<>>
                 ELSE (IF createOk THEN <<>> ELSE <<ClientOp("create", c)>>)
                      \o <<ClientOp("create", c),
                           ClientOp("write_pod_template", c),
                           ClientOp("apply_pod_template", c),
                           ClientOp("set_service_account", c),
                           ClientOp("set_namespace", c)>>]

\* IntegrationHubProviderEvents._on_service_account_requested for the
\* (namespace, username) pair of client c; createOk: the creation command
\* succeeds, templateOk: so do the write and the apply of the pod template;
\* failed names the command that failed, if one was run and failed
_on_service_account_requested(c, createOk, templateOk) ==
    IF ~leader
    THEN [raised |-> FALSE, granted |-> FALSE, failed |-> "none",
          trace |-> <<>>]
    ELSE IF ~createOk
    THEN [raised |-> TRUE, granted |-> FALSE, failed |-> "create",
          trace |-> <<ClientOp("create", c)>>]
    ELSE IF ~templateOk
    THEN [raised |-> TRUE, granted |-> FALSE, failed |-> "template",
          trace |-> <<ClientOp("create", c),
                      ClientOp("write_pod_template", c),
                      ClientOp("apply_pod_template", c)>>]
    ELSE [raised |-> FALSE, granted |-> TRUE, failed |-> "none",
          trace |-> <<ClientOp("create", c),
                      ClientOp("write_pod_template", c),
                      ClientOp("apply_pod_template", c),
                      ClientOp("set_service_account", c),
                      ClientOp("set_namespace", c)>>]

\* the account-requested event of a client that has not been granted yet
ServiceAccountRequested ==
    \E c \in ClientIds : \E createOk, templateOk \in BOOLEAN :
      /\ clients[c].rel /\ ~clients[c].granted
      /\ clients' = [clients EXCEPT ![c].granted =
                       _on_service_account_requested(c, createOk,
                                                     templateOk).granted]
      /\ lastEvent' =
           [id |-> c,
            failed |-> _on_service_account_requested(c, createOk,
                                                     templateOk).failed]
           @@ Step("account_requested",
                   IF _on_service_account_requested(c, createOk,
                                                    templateOk).raised
                   THEN "raised" ELSE "done", leader)
      /\ trace' = _on_service_account_requested(c, createOk, templateOk).trace
      /\ UNCHANGED <<ready, running, file, envFile, trusted, s3ok, leader, s3,
                     azure, pushgateway, loki, peerRel, peerData, queue,
                     deferred, unitStatus, appStatus, changes>>
      /\ UNCHANGED strVars

released_deletes_every_account(c, deleteOk) ==
    [raised |-> FALSE,
     failed |-> "none",
     trace  |-> [i \in 1..MaxClients |-> ClientOp("delete", i)]]

\* IntegrationHubProviderEvents._on_service_account_released for the pair
\* of client c; deleteOk: the deletion command succeeds
_on_service_account_released(c, deleteOk) ==
    IF ~leader THEN [raised |-> FALSE, failed |-> "none", trace |-> <<>>]
    ELSE [raised |-> ~deleteOk,
          failed |-> IF deleteOk THEN "none" ELSE "delete",
          trace |-> <<ClientOp("delete", c)>>]

\* the account-released event of a client: the relation is gone once the
\* handler has run
ServiceAccountReleased ==
    \E c \in ClientIds : \E deleteOk \in BOOLEAN :
      /\ clients[c].rel
      /\ changes < MaxChanges
      /\ changes' = changes + 1
      /\ clients' = [clients EXCEPT ![c] = NoRel]
      /\ lastEvent' =
           [id |-> c, skip |-> clients[c].skip,
            failed |-> _on_service_account_released(c, deleteOk).failed]
           @@ Step("account_released",
                   IF _on_service_account_released(c, deleteOk).raised
                   THEN "raised" ELSE "done", leader)
      /\ trace' = _on_service_account_released(c, deleteOk).trace
      /\ UNCHANGED <<ready, running, file, envFile, trusted, s3ok, leader, s3,
                     azure, pushgateway, loki, peerRel, peerData, queue,
                     deferred, unitStatus, appStatus>>
      /\ UNCHANGED strVars

(***************************************************************************)
(* Environment                                                             *)
(***************************************************************************)
EnvStep(name) ==
    /\ changes < MaxChanges
    /\ changes' = changes + 1
    /\ lastEvent' = Step(name, "done", leader)
    /\ trace' = <<>>
    /\ UNCHANGED <<deferred, unitStatus, appStatus>>
    /\ UNCHANGED strVars

\* the workload container goes away (with its files), or comes back, which
\* emits pebble-ready
ContainerChanges ==
    /\ EnvStep("container")
    /\ ready' = ~ready
    /\ running' = FALSE
    /\ file' = IF ready THEN NoFile ELSE file
    /\ envFile' = IF ready THEN NoEnv ELSE envFile
    /\ queue' = IF ready THEN queue ELSE Append(queue, "pebble_ready")
    /\ UNCHANGED <<trusted, s3ok, leader, s3, azure, pushgateway, loki,
                   peerRel, peerData, clients>>

\* the service exits on its own
WorkloadDies ==
    /\ running
    /\ EnvStep("workload")
    /\ running' = FALSE
    /\ UNCHANGED <<ready, file, envFile, trusted, s3ok, leader, s3, azure,
                   pushgateway, loki, peerRel, peerData, clients, queue>>

\* juju trust / untrust
TrustChanges ==
    /\ EnvStep("trust")
    /\ trusted' = ~trusted
    /\ UNCHANGED <<ready, running, file, envFile, s3ok, leader, s3, azure,
                   pushgateway, loki, peerRel, peerData, clients, queue>>

\* the object storage starts or stops accepting the credentials
VerifyChanges ==
    /\ EnvStep("verify")
    /\ s3ok' = ~s3ok
    /\ UNCHANGED <<ready, running, file, envFile, trusted, leader, s3, azure,
                   pushgateway, loki, peerRel, peerData, clients, queue>>

\* leadership moves between two hooks
LeaderChanges ==
    /\ EnvStep("leader")
    /\ leader' = ~leader
    /\ UNCHANGED <<ready, running, file, envFile, trusted, s3ok, s3, azure,
                   pushgateway, loki, peerRel, peerData, clients, queue>>

\* the remote side of a relation writes its data bag (the relation is
\* created if need be), which emits the changed event of the relation
RelationChanges ==
    /\ EnvStep("relation_changed")
    /\ \/ /\ ~(s3.rel /\ s3.dying)
          /\ \E d \in S3Data : s3' = Live(d)
          /\ queue' = Append(queue, "s3_changed")
          /\ UNCHANGED <<azure, pushgateway, loki>>
       \/ /\ ~(azure.rel /\ azure.dying)
          /\ \E d \in AzureData : azure' = Live(d)
          /\ queue' = Append(queue, "azure_changed")
          /\ UNCHANGED <<s3, pushgateway, loki>>
       \/ /\ ~(pushgateway.rel /\ pushgateway.dying)
          /\ \E d \in PushgatewayData : pushgateway' = Live(d)
          /\ queue' = Append(queue, "pushgateway_changed")
          /\ UNCHANGED <<s3, azure, loki>>
       \/ /\ ~(loki.rel /\ loki.dying)
          /\ \E d \in LokiData : loki' = Live(d)
          /\ queue' = Append(queue, "logging_changed")
          /\ UNCHANGED <<s3, azure, pushgateway>>
    /\ UNCHANGED <<ready, running, file, envFile, trusted, s3ok, leader,
                   peerRel, peerData, clients>>

Dying(r) == [r EXCEPT !.dying = TRUE]

\* a relation is removed, which emits its gone (broken) event
RelationDeparts ==
    /\ EnvStep("relation_departs")
    /\ \/ /\ s3.rel /\ ~s3.dying
          /\ s3' = Dying(s3)
          /\ queue' = Append(queue, "s3_gone")
          /\ UNCHANGED <<azure, pushgateway, loki>>
       \/ /\ azure.rel /\ ~azure.dying
          /\ azure' = Dying(azure)
          /\ queue' = Append(queue, "azure_gone")
          /\ UNCHANGED <<s3, pushgateway, loki>>
       \/ /\ pushgateway.rel /\ ~pushgateway.dying
          /\ pushgateway' = Dying(pushgateway)
          /\ queue' = Append(queue, "pushgateway_gone")
          /\ UNCHANGED <<s3, azure, loki>>
       \/ /\ loki.rel /\ ~loki.dying
          /\ loki' = Dying(loki)
          /\ queue' = Append(queue, "logging_gone")
          /\ UNCHANGED <<s3, azure, pushgateway>>
    /\ UNCHANGED <<ready, running, file, envFile, trusted, s3ok, leader,
                   peerRel, peerData, clients>>

\* the peer relation is created
PeerRelationCreated ==
    /\ ~peerRel
    /\ peerRel' = TRUE
    /\ lastEvent' = Step("peer_created", "done", leader)
    /\ trace' = <<>>
    /\ UNCHANGED <<ready, running, file, envFile, trusted, s3ok, leader, s3,
                   azure, pushgateway, loki, peerData, clients, queue,
                   deferred, unitStatus, appStatus, changes>>
    /\ UNCHANGED strVars

\* a client application is related and requests a service account
ClientJoins ==
    /\ EnvStep("client_joins")
    /\ \E c \in ClientIds :
         /\ ~clients[c].rel
         /\ \E j \in {Joined, JoinedSkipping} :
              clients' = [clients EXCEPT ![c] = j]
    /\ UNCHANGED <<ready, running, file, envFile, trusted, s3ok, leader, s3,
                   azure, pushgateway, loki, peerRel, peerData, queue>>

(***************************************************************************)
(* The charm                                                               *)
(***************************************************************************)
NoResult == [op |-> "none"]

StrIdle == str = <<>> /\ strOut = NoResult

\* The unit starts: the workload container is new (no file, service down),
\* the relations made at deployment may already be there, and the runtime
\* has config-changed and pebble-ready to deliver.
Init ==
    /\ ready = TRUE
    /\ running = FALSE
    /\ file = NoFile
    /\ envFile = NoEnv
    /\ trusted = TRUE
    /\ leader \in BOOLEAN
    /\ s3 \in {NoRel, Live(S3Full)}
    /\ s3ok \in (IF s3.rel THEN BOOLEAN ELSE {TRUE})
    /\ azure \in {NoRel, Live(AzureFull)}
    /\ \E observed \in BOOLEAN :
         /\ pushgateway = IF observed THEN Live(PushgatewayFull) ELSE NoRel
         /\ loki = IF observed THEN Live(LokiFull) ELSE NoRel
    /\ peerRel = FALSE
    /\ peerData = EmptyDict
    /\ clients \in {[c \in ClientIds |-> IF c = 1 THEN Joined ELSE NoRel],
                    [c \in ClientIds |-> Joined]}
    /\ queue = <<"config_changed", "pebble_ready">>
    /\ deferred = {}
    /\ unitStatus = NoStatus
    /\ appStatus = NoStatus
    /\ lastEvent = Step("start", "done", leader)
    /\ trace = <<>>
    /\ changes = 0
    /\ StrIdle

Next ==
    \/ S3CredentialChanged
    \/ S3CredentialGone
    \/ AzureStorageChanged
    \/ AzureStorageGone
    \/ PushgatewayChanged
    \/ PushgatewayGone
    \/ LokiUrlUpdated
    \/ LokiUrlRemoved
    \/ PebbleReady
    \/ ConfigChanged
    \/ UpdateEvent
    \/ AddConfig
    \/ ServiceAccountRequested
    \/ ServiceAccountReleased
    \/ ContainerChanges
    \/ WorkloadDies
    \/ TrustChanges
    \/ VerifyChanges
    \/ LeaderChanges
    \/ RelationChanges
    \/ RelationDeparts
    \/ PeerRelationCreated
    \/ ClientJoins

Spec == Init /\ [][Next]_vars

(***************************************************************************)
(* Two passes around a change of the verification verdict                  *)
(***************************************************************************)
\* A unit that starts with the S3 relation attached: config-changed and
\* pebble-ready are delivered in this order, and the object storage may
\* start or stop accepting the credentials at any moment.
InitVerify ==
    /\ ready = TRUE
    /\ running = FALSE
    /\ file = NoFile
    /\ envFile = NoEnv
    /\ trusted \in BOOLEAN
    /\ leader \in BOOLEAN
    /\ s3 \in {Live(d) : d \in S3Data}
    /\ s3ok \in BOOLEAN
    /\ azure \in {NoRel, Live(AzureFull)}
    /\ \E observed \in BOOLEAN :
         /\ pushgateway = IF observed THEN Live(PushgatewayFull) ELSE NoRel
         /\ loki = IF observed THEN Live(LokiFull) ELSE NoRel
    /\ peerRel = FALSE
    /\ peerData = EmptyDict
    /\ clients = [c \in ClientIds |-> IF c = 1 THEN Joined ELSE NoRel]
    /\ queue = <<"config_changed", "pebble_ready">>
    /\ deferred = {}
    /\ unitStatus = NoStatus
    /\ appStatus = NoStatus
    /\ lastEvent = Step("start", "done", leader)
    /\ trace = <<>>
    /\ changes = 0
    /\ StrIdle

NextVerify ==
    \/ ConfigChanged
    \/ PebbleReady
    \/ VerifyChanges

SpecVerify == InitVerify /\ [][NextVerify]_vars

(***************************************************************************)
(* The DotSerializer and the add-config parser on their own                *)
(***************************************************************************)
\* the charm at rest while a string function is exercised
HubIdle ==
    /\ ready = FALSE
    /\ running = FALSE
    /\ file = NoFile
    /\ envFile = NoEnv
    /\ trusted = FALSE
    /\ s3ok = FALSE
    /\ leader = FALSE
    /\ s3 = NoRel
    /\ azure = NoRel
    /\ pushgateway = NoRel
    /\ loki = NoRel
    /\ peerRel = FALSE
    /\ peerData = EmptyDict
    /\ clients = [c \in ClientIds |-> NoRel]
    /\ queue = <<>>
    /\ deferred = {}
    /\ unitStatus = NoStatus
    /\ appStatus = NoStatus
    /\ lastEvent = Step("start", "done", FALSE)
    /\ trace = <<>>
    /\ changes = 0

\* the characters of the keys given to the DotSerializer
KeyChars == {".", "_", "a"}

InitSerializer ==
    /\ HubIdle
    /\ str \in SeqsUpTo(KeyChars, MaxKeyLen)
    /\ strOut = NoResult

\* DotSerializer.serialize on the input
Serialize ==
    /\ strOut = NoResult
    /\ strOut' = [op |-> "serialize", value |-> serialize(str)]
    /\ UNCHANGED <<str, hubVars>>

\* DotSerializer.deserialize on what serialize returned
Deserialize ==
    /\ strOut.op = "serialize"
    /\ strOut' = [op |-> "deserialize", value |-> deserialize(strOut.value)]
    /\ UNCHANGED <<str, hubVars>>

NextSerializer == Serialize \/ Deserialize

SpecSerializer == InitSerializer /\ [][NextSerializer]_vars

\* the characters of the lines given to add-config
LineChars == {"k", "v", "=", " ", "\t"}

\* the line of test_add_config_with_equal_sign
ExampleLine == <<"k", "e", "y", "=", "i", "a", "m", "=", "s", "e", "c", "r",
                 "e", "t", "=", "=">>

\* add-config parses the lines that hold an "="
InitParser ==
    /\ HubIdle
    /\ str \in {l \in SeqsUpTo(LineChars, MaxLineLen) \cup {ExampleLine} :
                  HasEq(l)}
    /\ strOut = NoResult

\* ConfigurationActionEvents._parse_property_line on the input
Parse ==
    /\ strOut = NoResult
    /\ strOut' = [op |-> "parse", got |-> _parse_property_line(str)]
    /\ UNCHANGED <<str, hubVars>>

NextParser == Parse

SpecParser == InitParser /\ [][NextParser]_vars

(***************************************************************************)
(* The status resolver on every combination of its signals                 *)
(***************************************************************************)
\* Any state of the signals get_app_status reads: container reachable or
\* not, service running or not (it cannot run in an unreachable container),
\* trust, credential verdict, the storage relations with any of their data.
InitStatus ==
    /\ ready \in BOOLEAN
    /\ running \in (IF ready THEN BOOLEAN ELSE {FALSE})
    /\ file = IF running THEN [exists |-> TRUE, content |-> <<>>] ELSE NoFile
    /\ envFile = IF running THEN SparkPropertiesPath ELSE NoEnv
    /\ trusted \in BOOLEAN
    /\ s3ok \in BOOLEAN
    /\ leader \in BOOLEAN
    /\ s3 \in {NoRel} \cup {Live(d) : d \in S3Data}
    /\ azure \in {NoRel} \cup {Live(d) : d \in AzureData}
    /\ pushgateway = NoRel
    /\ loki = NoRel
    /\ peerRel = TRUE
    /\ peerData = EmptyDict
    /\ clients = [c \in ClientIds |-> NoRel]
    /\ queue = <<>>
    /\ deferred = {}
    /\ unitStatus = NoStatus
    /\ appStatus = NoStatus
    /\ lastEvent = Step("start", "done", leader)
    /\ trace = <<>>
    /\ changes = MaxChanges
    /\ StrIdle

NextStatus == UpdateEvent

SpecStatus == InitStatus /\ [][NextStatus]_vars

(***************************************************************************)
(* The administrative actions on their own                                 *)
(***************************************************************************)
\* peer data bags the actions may find
PeerBags ==
    {EmptyDict,
     [q \in {<<"k">>} |-> "w"],
     [q \in {<<"a", ".", "a">>} |-> "w"],
     [q \in {<<"k">>, <<"a", ".", "a">>} |-> "w"]}

\* A unit on which an operator runs actions: container reachable or not,
\* leader or not, the peer relation created or not yet (and then empty).
InitActions ==
    /\ ready \in BOOLEAN
    /\ running = FALSE
    /\ file = NoFile
    /\ envFile = NoEnv
    /\ trusted = TRUE
    /\ s3ok = TRUE
    /\ leader \in BOOLEAN
    /\ s3 = NoRel
    /\ azure = NoRel
    /\ pushgateway = NoRel
    /\ loki = NoRel
    /\ peerRel \in BOOLEAN
    /\ peerData \in (IF peerRel THEN PeerBags ELSE {EmptyDict})
    /\ clients = [c \in ClientIds |-> NoRel]
    /\ queue = <<>>
    /\ deferred = {}
    /\ unitStatus = NoStatus
    /\ appStatus = NoStatus
    /\ lastEvent = Step("start", "done", leader)
    /\ trace = <<>>
    /\ changes = 0
    /\ StrIdle

NextActions ==
    \/ AddConfig
    \/ RemoveConfig
    \/ ClearConfig
    \/ ListConfig
    \/ PeerRelationCreated

SpecActions == InitActions /\ [][NextActions]_vars

(***************************************************************************)
(* The service-account provider on its own                                 *)
(***************************************************************************)
\* Client relations in any mix of absent, requesting and requesting with
\* skip-creation, on a leader or on another unit.
InitProvider ==
    /\ ready = TRUE
    /\ running = FALSE
    /\ file = NoFile
    /\ envFile = NoEnv
    /\ trusted = TRUE
    /\ s3ok = TRUE
    /\ leader \in BOOLEAN
    /\ s3 = NoRel
    /\ azure = NoRel
    /\ pushgateway = NoRel
    /\ loki = NoRel
    /\ peerRel = TRUE
    /\ peerData = EmptyDict
    /\ clients \in [ClientIds -> {NoRel, Joined, JoinedSkipping}]
    /\ queue = <<>>
    /\ deferred = {}
    /\ unitStatus = NoStatus
    /\ appStatus = NoStatus
    /\ lastEvent = Step("start", "done", leader)
    /\ trace = <<>>
    /\ changes = 0
    /\ StrIdle

NextProvider ==
    \/ ServiceAccountRequested
    \/ ServiceAccountReleased
    \/ ClientJoins
    \/ LeaderChanges

SpecProvider == InitProvider /\ [][NextProvider]_vars

(***************************************************************************)
(* The serialization of the configuration on its own                       *)
(***************************************************************************)
\* user keys, character by character
MappingKeys ==
    {<<"a", ".", "a">>, <<"a", "_", "a">>, <<"f", "o", "o">>,
     <<"f", "o", "o", ".", "b", "a", "r">>, <<"k">>, <<"k", "e", "y">>}

\* values of a mapping: empty, None, or a text
MappingValues == {"", None, "v"}

\* every mapping of some of the keys to the values
Mappings ==
    UNION {[{StrOf(q) : q \in K} -> MappingValues] : K \in SUBSET MappingKeys}

InitContents ==
    /\ HubIdle
    /\ str \in Mappings
    /\ strOut = NoResult

\* IntegrationHubConfig.contents on the mapping to_dict returned
Contents ==
    /\ strOut = NoResult
    /\ strOut' = [op |-> "contents", lines |-> Lines(str)]
    /\ UNCHANGED <<str, hubVars>>

NextContents == Contents

SpecContents == InitContents /\ [][NextContents]_vars

(***************************************************************************)
(* The configuration builder on its own                                    *)
(***************************************************************************)
\* endpoints an S3 relation may carry: a scheme (or none), a host, a port
\* (or none)
S3Endpoints ==
    {scheme \o host \o port :
       scheme \in {Https \o SlashSlash, Http \o SlashSlash,
                   <<"h", "t", "t", "p", "s">>, <<>>},
       host \in {<<"h">>},
       port \in {<<>>, <<":", "4", "4", "3">>, <<":", "4", "4", "3", "0">>,
                 <<":", "4", "4">>, <<":", "8", "0">>}}
    \cup {S3Full["endpoint"]}

\* the data of S3Full with no endpoint given
S3NoEndpoint == [f \in DOMAIN S3Full \ {"endpoint"} |-> S3Full[f]]

\* S3 relation data with every endpoint, and with none
S3BuilderData ==
    {[S3Full EXCEPT !["endpoint"] = e] : e \in S3Endpoints}
    \cup {S3NoEndpoint, S3NoAccessKey}

\* a connection protocol the charm does not know, the secret not yet given
AzureUnknownProtocol ==
    [f \in {"container", "storage-account", "connection-protocol"} |->
       CASE f = "container" -> "c"
         [] f = "storage-account" -> "acct"
         [] OTHER -> "gs"]

AzureBuilderData == AzureData \cup {AzureUnknownProtocol}

\* user keys as the peer data bag holds them (escaped) that collide with
\* a storage key, a metrics key and a log-forwarding key
OverrideKeys ==
    {<<"spark", "_", "eventLog", "_", "dir">>,
     <<"spark", "_", "metrics", "_", "conf", "_", "*", "_", "sink", "_",
       "prometheus", "_", "period">>,
     <<"spark", "_", "executorEnv", "_", "LOKI", "_", "_", "URL">>}

\* peer data bags that override any of these keys
OverrideBags == UNION {[K -> {"user"}] : K \in SUBSET OverrideKeys}

\* Any relation data the builder may be given: each relation absent,
\* attached with its fields populated, or attached with fields missing.
InitBuilder ==
    /\ ready = TRUE
    /\ running = FALSE
    /\ file = NoFile
    /\ envFile = NoEnv
    /\ trusted = TRUE
    /\ s3ok \in BOOLEAN
    /\ leader = FALSE
    /\ s3 \in {NoRel} \cup {Live(d) : d \in S3BuilderData}
    /\ azure \in {NoRel} \cup {Live(d) : d \in AzureBuilderData}
    /\ pushgateway \in {NoRel} \cup {Live(d) : d \in PushgatewayData}
    /\ loki \in {NoRel} \cup {Live(d) : d \in LokiData}
    /\ peerRel = TRUE
    /\ peerData \in OverrideBags
    /\ clients = [c \in ClientIds |-> NoRel]
    /\ queue = <<>>
    /\ deferred = {}
    /\ unitStatus = NoStatus
    /\ appStatus = NoStatus
    /\ lastEvent = Step("start", "done", leader)
    /\ trace = <<>>
    /\ changes = 0
    /\ StrIdle

\* IntegrationHubConfig(...).to_dict() on the relations of the context
BuildConfig ==
    /\ strOut = NoResult
    /\ strOut' = [op     |-> "to_dict",
                  raises |-> ConfigRaises(UpdateCfg(FALSE, FALSE, FALSE, FALSE)),
                  dict   |-> IF ConfigRaises(UpdateCfg(FALSE, FALSE, FALSE, FALSE))
                             THEN EmptyDict
                             ELSE to_dict(UpdateCfg(FALSE, FALSE, FALSE, FALSE))]
    /\ UNCHANGED <<str, hubVars>>

NextBuilder == BuildConfig

SpecBuilder == InitBuilder /\ [][NextBuilder]_vars

(***************************************************************************)
(* Events that arrive before the workload is ready                         *)
(***************************************************************************)
\* The unit starts with its container not yet reachable: config-changed and
\* the events of the relations made at deployment are waiting, one relation
\* may already be on its way out, and pebble-ready has not been emitted.
InitDeferred ==
    /\ ready = FALSE
    /\ running = FALSE
    /\ file = NoFile
    /\ envFile = NoEnv
    /\ trusted = TRUE
    /\ leader \in BOOLEAN
    /\ s3 \in {NoRel, Live(S3Full), Dying(Live(S3Full))}
    /\ s3ok \in (IF s3.rel THEN BOOLEAN ELSE {TRUE})
    /\ azure \in {NoRel} \cup {Live(d) : d \in AzureData}
    /\ \E observed \in BOOLEAN :
         /\ pushgateway = IF observed THEN Live(PushgatewayFull) ELSE NoRel
         /\ loki = IF observed THEN Live(LokiFull) ELSE NoRel
    /\ peerRel = FALSE
    /\ peerData = EmptyDict
    /\ clients = [c \in ClientIds |-> IF c = 1 THEN Joined ELSE NoRel]
    /\ queue = <<"config_changed">>
               \o (IF ~s3.rel THEN <<>>
                   ELSE IF s3.dying THEN <<"s3_gone">> ELSE <<"s3_changed">>)
               \o (IF azure.rel THEN <<"azure_changed">> ELSE <<>>)
    /\ deferred = {}
    /\ unitStatus = NoStatus
    /\ appStatus = NoStatus
    /\ lastEvent = Step("start", "done", leader)
    /\ trace = <<>>
    /\ changes = 0
    /\ StrIdle

NextDeferred ==
    \/ ConfigChanged
    \/ S3CredentialChanged
    \/ S3CredentialGone
    \/ AzureStorageChanged
    \/ PebbleReady
    \/ ContainerChanges

\* the delivery of some event to its handler
Deliveries ==
    \/ ConfigChanged
    \/ S3CredentialChanged
    \/ S3CredentialGone
    \/ AzureStorageChanged
    \/ PebbleReady

\* While an event is waiting, in the queue or deferred, the runtime goes on
\* dispatching: it delivers the head of the queue and re-emits the deferred
\* events. Nothing obliges the container to come up.
FairDelivery == WF_vars(Deliveries)

SpecDeferred == InitDeferred /\ [][NextDeferred]_vars /\ FairDelivery

(***************************************************************************)
(* What the claims speak of                                                *)
(***************************************************************************)
\* number of operations named name among ops
Count(ops, name) == Cardinality({i \in 1..Len(ops) : ops[i].op = name})

Publishes(ops, c) == \E i \in 1..Len(ops) : ops[i] = Publish(c)

\* the last step was a reconciliation pass that ran to its end
PassDone == lastEvent.outcome = "done" /\ lastEvent.cfg # NoCfg

\* the handlers wrapped by defer_when_not_ready
GatedEvents == {"s3_changed", "s3_gone", "azure_changed", "azure_gone",
                "pushgateway_changed", "pushgateway_gone", "logging_changed",
                "logging_gone", "pebble_ready", "config_changed"}

\* the handlers wrapped by compute_status
ComputedEvents == {"s3_changed", "azure_changed", "pushgateway_changed",
                   "logging_changed", "pebble_ready", "config_changed",
                   "update_status"}

\* the handlers whose body sets the statuses
ManualEvents == {"s3_gone", "azure_gone", "pushgateway_gone"}

\* the last step published a status
StatusPublished ==
    \/ lastEvent.name \in ComputedEvents /\ lastEvent.outcome # "raised"
    \/ lastEvent.name \in ManualEvents /\ lastEvent.outcome = "done"

ConflictStatus == "MULTIPLE_OBJECT_STORAGE_RELATIONS"

\* both storage backends are present and configured
BothStorages == ContextS3.rel /\ ContextAzureStorage.rel

\* the keys a storage backend contributes to the configuration
StorageKeys ==
    {"spark.hadoop.fs.s3a.path.style.access",
     "spark.hadoop.fs.s3a.endpoint",
     "spark.hadoop.fs.s3a.access.key",
     "spark.hadoop.fs.s3a.secret.key",
     "spark.hadoop.fs.s3a.aws.credentials.provider",
     "spark.hadoop.fs.s3a.connection.ssl.enabled",
     "spark.hadoop.fs.azure.account.key.acct.dfs.core.windows.net",
     "spark.hadoop.fs.azure.account.key.acct.blob.core.windows.net",
     "spark.eventLog.dir",
     "spark.history.fs.logDirectory",
     "spark.kubernetes.file.upload.path",
     "spark.sql.warehouse.dir"}

(***************************************************************************)
(* C1                                                                      *)
(***************************************************************************)
\* C1: idempotence of convergence: of two update calls in a row on the same
\* inputs, both running to their end, the second performs no file write, no
\* environment update and no restart; the two together perform at most one
\* write and one restart, and leave the file holding the built contents.
C1_SecondCallIsNoRewrite ==
    lastEvent.repeats =>
      /\ Count(trace, "write") = 0
      /\ Count(trace, "set_environment") = 0
      /\ Count(trace, "restart") = 0
      /\ Count(lastEvent.before, "write") <= 1
      /\ Count(lastEvent.before, "restart") <= 1
      /\ file = [exists |-> TRUE, content |-> contents(lastEvent.cfg)]

\* C1: a second call on the same inputs has run after a first call that
\* wrote the file and restarted the workload
C1_Witness ==
    /\ lastEvent.repeats
    /\ Count(lastEvent.before, "write") = 1
    /\ Count(lastEvent.before, "restart") = 1

\* C1 as stated: two calls in a row on the same inputs produce exactly one
\* write and exactly one restart.
C1_ExactlyOneWrite ==
    lastEvent.repeats =>
      /\ Count(lastEvent.before, "write") + Count(trace, "write") = 1
      /\ Count(lastEvent.before, "restart") + Count(trace, "restart") = 1

(***************************************************************************)
(* C2                                                                      *)
(***************************************************************************)
\* C2: status precedence: get_app_status returns the first match of: not
\* ready -> WAITING_PEBBLE; not trusted -> NOT_TRUSTED; S3 and Azure both
\* present -> MULTIPLE_OBJECT_STORAGE_RELATIONS; S3 present and verification
\* fails -> INVALID_S3_CREDENTIALS; not active -> NOT_RUNNING; otherwise
\* ACTIVE.
C2_StatusPrecedence ==
    lastEvent.name = "update_status" =>
      /\ ~ready => unitStatus = "WAITING_PEBBLE"
      /\ ready /\ ~trusted => unitStatus = "NOT_TRUSTED"
      /\ ready /\ trusted /\ BothStorages => unitStatus = ConflictStatus
      /\ ready /\ trusted /\ ~BothStorages /\ ContextS3.rel /\ ~s3ok
           => unitStatus = "INVALID_S3_CREDENTIALS"
      /\ ready /\ trusted /\ ~BothStorages /\ ~(ContextS3.rel /\ ~s3ok)
           /\ ~running
           => unitStatus = "NOT_RUNNING"
      /\ ready /\ trusted /\ ~BothStorages /\ ~(ContextS3.rel /\ ~s3ok)
           /\ running
           => unitStatus = "ACTIVE"

\* C2: the status has been resolved with workload ready, trusted, no
\* conflict, invalid credentials and an active workload
C2_Witness ==
    /\ lastEvent.name = "update_status"
    /\ ready /\ trusted /\ ~BothStorages
    /\ ContextS3.rel /\ ~s3ok
    /\ running
    /\ unitStatus = "INVALID_S3_CREDENTIALS"

(***************************************************************************)
(* C3                                                                      *)
(***************************************************************************)
\* C3: storage conflict, status part: whenever a handler publishes a status
\* while both storage backends are present and configured, the workload is
\* ready and the charm is trusted, the status is the storage-conflict value,
\* whatever the credential verdict and the workload activity.
C3_ConflictStatus ==
    StatusPublished /\ BothStorages /\ ready /\ trusted =>
      unitStatus = ConflictStatus

\* C3: the conflict status has been published with credentials that do not
\* verify and a workload that does not run
C3_Witness ==
    /\ StatusPublished /\ BothStorages /\ ready /\ trusted
    /\ ~s3ok /\ ~running
    /\ unitStatus = ConflictStatus

\* C3 as stated: with both storage backends present the status is the
\* storage-conflict value regardless of any other signal.
C3_ConflictRegardless ==
    StatusPublished /\ BothStorages => unitStatus = ConflictStatus

(***************************************************************************)
(* C4                                                                      *)
(***************************************************************************)
\* C4: storage conflict, configuration part: whenever a pass builds the
\* configuration with both storage backends configured, the built mapping
\* holds no key contributed by either backend.
C4_NoStorageKeysUnderConflict ==
    PassDone /\ lastEvent.cfg.s3.rel /\ lastEvent.cfg.azure_storage.rel =>
      DOMAIN to_dict(lastEvent.cfg) \cap StorageKeys = {}

\* C4: a pass has built the configuration with both storage backends given
C4_Witness ==
    /\ PassDone
    /\ lastEvent.cfg.s3.rel /\ lastEvent.cfg.azure_storage.rel
    /\ file.exists

(***************************************************************************)
(* C5                                                                      *)
(***************************************************************************)
\* C5: readiness gate: when a gated handler is delivered its event while the
\* workload is not ready, the event is deferred and the body does not run:
\* no stop, no write, no environment update, no restart, no publication.
C5_ReadinessGate ==
    lastEvent.name \in GatedEvents /\ ~ready =>
      /\ lastEvent.outcome = "deferred"
      /\ lastEvent.name \in deferred
      /\ trace = <<>>

\* C5: a gated event has been delivered to a workload that is not ready
\* while the configuration on hand differs from the file
C5_Witness ==
    /\ lastEvent.name \in GatedEvents
    /\ ~ready
    /\ lastEvent.outcome = "deferred"
    /\ ~file.exists

(***************************************************************************)
(* C6                                                                      *)
(***************************************************************************)
\* C6: leader-only fan-out: a pass publishes to a client only if the unit is
\* leader when the fan-out reads leadership; a unit that lost leadership
\* since the event was delivered publishes nothing.
C6_LeaderOnlyFanOut ==
    \A c \in ClientIds :
      Publishes(trace, c) => lastEvent.isLeader /\ leader

\* C6: a pass has run to its end on a unit that was leader at delivery and
\* no longer at the fan-out, with a client waiting for its configuration
C6_Witness ==
    /\ PassDone
    /\ lastEvent.wasLeader /\ ~lastEvent.isLeader
    /\ \E c \in ClientIds :
         /\ clients[c].rel
         /\ spark_properties(c) # to_dict(lastEvent.cfg)
    /\ \A c \in ClientIds : ~Publishes(trace, c)

C8_FanOutIdempotent ==
    [][\A c \in ClientIds :
         Publishes(trace', c) =>
           /\ clients[c].rel
           /\ spark_properties(c) # clients'[c].props.value]_vars

\* C8: of two clients a leader pass has written the one whose snapshot
\* differed and left the other, which held the built mapping
C8_Witness ==
    /\ PassDone /\ lastEvent.isLeader
    /\ Publishes(trace, 2) /\ ~Publishes(trace, 1)
    /\ clients[1].rel /\ clients[1].props.set
    /\ clients[1].props = clients[2].props

(***************************************************************************)
(* C9                                                                      *)
(***************************************************************************)
\* C9: escaping round-trip: for every string s over '.', '_' and letters,
\* deserialize(serialize(s)) = s.
C9_RoundTrip ==
    strOut.op = "deserialize" => strOut.value = str

\* C9: a dot next to an underscore has gone through serialize and then
\* deserialize
C9_Witness ==
    /\ strOut.op = "deserialize"
    /\ str = <<".", "_">>

(***************************************************************************)
(* C10                                                                     *)
(***************************************************************************)
\* C10: equal-sign parsing: for every line that holds an "=", the stored key
\* is the text before the first "=" and the stored value is everything after
\* the first "=".
C10_FirstEqualSign ==
    strOut.op = "parse" =>
      /\ ~strOut.got.raises
      /\ strOut.got.key = BeforeFirstEq(str)
      /\ strOut.got.value = AfterFirstEq(str)

\* C10: the line of the example has been parsed into key "key" and value
\* "iam=secret=="
C10_Witness ==
    /\ strOut.op = "parse"
    /\ str = ExampleLine
    /\ ~strOut.got.raises
    /\ StrOf(strOut.got.key) = "key"
    /\ StrOf(strOut.got.value) = "iam=secret=="

(***************************************************************************)
(* C11                                                                     *)
(***************************************************************************)
\* the action handlers
ActionNames == {"add_config", "remove_config", "clear_config", "list_config"}

\* a step leaves everything but the record of the step as it was
ActionFrame ==
    UNCHANGED <<ready, running, file, envFile, trusted, s3ok, leader, s3,
                azure, pushgateway, loki, peerRel, peerData, clients, queue,
                deferred, unitStatus, appStatus>>

\* C11: add-config given a string without "=" fails with a message and
\* leaves the peer configuration and every other piece of state unchanged.
C11_NoEqualSignFails ==
    [][(lastEvent'.name = "add_config" /\ FirstEq(lastEvent'.arg) = 0) =>
         /\ lastEvent'.outcome = "failed"
         /\ lastEvent'.message # ""
         /\ ActionFrame]_vars

\* C11: add-config has been given a line without "=" on a unit that is
\* ready and has its peer relation
C11_Witness ==
    /\ lastEvent.name = "add_config"
    /\ FirstEq(lastEvent.arg) = 0
    /\ ready /\ peerRel
    /\ lastEvent.message = "Configuration cannot be applied"

(***************************************************************************)
(* C12                                                                     *)
(***************************************************************************)
\* C12: each administrative action invoked while the peer relation does not
\* exist fails with a message, is not deferred and mutates no state.
C12_NoPeerRelationFails ==
    [][(lastEvent'.name \in ActionNames /\ ~peerRel) =>
         /\ lastEvent'.outcome = "failed"
         /\ lastEvent'.message # ""
         /\ deferred' = {}
         /\ ActionFrame]_vars

\* C12: an action has been refused on a ready unit for want of the peer
\* relation
C12_Witness ==
    /\ lastEvent.name \in ActionNames
    /\ ready /\ ~peerRel
    /\ lastEvent.message = "Peer relation is not ready"

(***************************************************************************)
(* C13                                                                     *)
(***************************************************************************)
\* the last step was add-config("k=v") that succeeded, v not empty
AddDone ==
    /\ lastEvent.name = "add_config"
    /\ lastEvent.outcome = "done"
    /\ AfterFirstEq(lastEvent.arg) # <<>>

\* C13: add/list round-trip: after a successful add-config("k=v") the
\* mapping list-config returns holds the key k with value v (and, besides
\* k, the keys it held before), and the built configuration holds k=v.
C13_AddListRoundTrip ==
    AddDone =>
      LET k == StrOf(BeforeFirstEq(lastEvent.arg))
          v == StrOf(AfterFirstEq(lastEvent.arg))
          listed == spark_configurations(peerData)
          built == to_dict(UpdateCfg(FALSE, FALSE, FALSE, FALSE))
      IN  /\ k \in DOMAIN listed
          /\ listed[k] = v
          /\ DOMAIN listed = DOMAIN spark_configurations(lastEvent.prior) \cup {k}
          /\ k \in DOMAIN built
          /\ built[k] = v

\* C13: a key with dots has been added and is listed under its own name
C13_Witness ==
    /\ AddDone
    /\ lastEvent.arg = <<"a", ".", "a", "=", "v">>
    /\ "a.a" \in DOMAIN spark_configurations(peerData)
    /\ spark_configurations(peerData)["a.a"] = "v"

(***************************************************************************)
(* C14                                                                     *)
(***************************************************************************)
\* the last two steps were a successful add-config("k=v") of a key the
\* data bag did not hold and remove-config(k)
AddThenRemove ==
    /\ lastEvent.name = "remove_config"
    /\ lastEvent.results.prev.name = "add_config"
    /\ lastEvent.results.prev.outcome = "done"
    /\ HasEq(lastEvent.results.prev.arg)
    /\ AfterFirstEq(lastEvent.results.prev.arg) # <<>>
    /\ BeforeFirstEq(lastEvent.results.prev.arg) = lastEvent.arg
    /\ lastEvent.arg \notin DOMAIN lastEvent.results.prev.prior

\* C14: add/remove inverse: add-config("k=v") of a key not present before,
\* followed by remove-config(k), succeeds and leaves the user configuration,
\* and so the configuration built for the clients, as before the add.
C14_AddRemoveInverse ==
    AddThenRemove =>
      /\ lastEvent.outcome = "done"
      /\ lastEvent.arg \notin DOMAIN peerData
      /\ peerData = lastEvent.results.prev.prior
      /\ spark_configurations(peerData)
           = spark_configurations(lastEvent.results.prev.prior)

\* C14: a key with a dot has been added next to another key and removed
C14_Witness ==
    /\ AddThenRemove
    /\ lastEvent.arg = <<"a", ".", "a">>
    /\ DOMAIN peerData = {<<"k">>}

(***************************************************************************)
(* C15                                                                     *)
(***************************************************************************)
\* position of the operation op in ops, 0 when it is not there
Pos(ops, op) ==
    IF \E i \in 1..Len(ops) : ops[i] = op
    THEN CHOOSE i \in 1..Len(ops) :
           ops[i] = op /\ \A j \in 1..(i - 1) : ops[j] # op
    ELSE 0

\* the clients named by the operations called name in ops
Targets(ops, name) == {ops[i].id : i \in {j \in 1..Len(ops) : ops[j].op = name}}

C16_SkipCreationIssuesNoCommand ==
    [][/\ \A c \in ClientIds :
            (/\ lastEvent'.name = "account_requested"
             /\ lastEvent'.id = c
             /\ clients[c].skip)
            => Targets(trace', "create") = {}
       /\ (lastEvent'.name = "account_released" /\ lastEvent'.skip)
            => Targets(trace', "delete") = {}]_vars

\* C16: the request of a client that opted out has been granted
C16_Witness ==
    /\ lastEvent.name = "account_requested"
    /\ clients[lastEvent.id].skip
    /\ clients[lastEvent.id].granted

(***************************************************************************)
(* C17                                                                     *)
(***************************************************************************)
\* C17: service-account release: when the relation of a client that did not
\* opt out is released, the leader issues the delete command for that
\* client's pair and for no other, the other clients are left as they are,
\* and a unit that is not leader issues no delete.
C17_ReleaseDeletesOwnAccount ==
    [][(lastEvent'.name = "account_released" /\ ~lastEvent'.skip) =>
         /\ trace' = IF leader THEN <<ClientOp("delete", lastEvent'.id)>>
                     ELSE <<>>
         /\ ~clients'[lastEvent'.id].rel
         /\ \A d \in ClientIds \ {lastEvent'.id} :
              clients'[d] = clients[d]]_vars

\* C17: of two clients with an account the leader has released one
C17_Witness ==
    /\ lastEvent.name = "account_released"
    /\ ~lastEvent.skip
    /\ lastEvent.isLeader
    /\ trace = <<ClientOp("delete", lastEvent.id)>>
    /\ \E d \in ClientIds : clients[d].rel /\ clients[d].granted

(***************************************************************************)
(* C18                                                                     *)
(***************************************************************************)
\* the keys of the configuration that come from one relation only
DerivedKeys(name) ==
    CASE name = "s3_gone" ->
           {"spark.hadoop.fs.s3a.path.style.access",
            "spark.hadoop.fs.s3a.endpoint",
            "spark.hadoop.fs.s3a.access.key",
            "spark.hadoop.fs.s3a.secret.key",
            "spark.hadoop.fs.s3a.aws.credentials.provider",
            "spark.hadoop.fs.s3a.connection.ssl.enabled"}
      [] name = "azure_gone" ->
           {"spark.hadoop.fs.azure.account.key.acct.dfs.core.windows.net",
            "spark.hadoop.fs.azure.account.key.acct.blob.core.windows.net"}
      [] name = "logging_gone" ->
           {"spark.executorEnv.LOKI_URL", "spark.kubernetes.driverEnv.LOKI_URL"}

\* the last step was the gone/broken handler of S3, Azure storage or
\* logging, run to its end
GoneDone ==
    /\ lastEvent.name \in {"s3_gone", "azure_gone", "logging_gone"}
    /\ lastEvent.outcome = "done"

InvalidPass ==
    /\ PassDone
    /\ lastEvent.cfg.s3.rel
    /\ ~lastEvent.cfg.verify

\* C19: invalid credentials: a pass with the S3 relation attached and
\* verification failing builds, and persists, a configuration with none of
\* the S3 keys (no storage key at all without Azure storage), and with the
\* workload ready and trusted and no second storage backend the status it
\* publishes is "Invalid S3 credentials".
C19_InvalidCredentials ==
    InvalidPass =>
      /\ DOMAIN to_dict(lastEvent.cfg) \cap DerivedKeys("s3_gone") = {}
      /\ ~lastEvent.cfg.azure_storage.rel
           => DOMAIN to_dict(lastEvent.cfg) \cap StorageKeys = {}
      /\ file = [exists |-> TRUE, content |-> contents(lastEvent.cfg)]
      /\ (StatusPublished /\ trusted /\ ~ContextAzureStorage.rel)
           => unitStatus = "INVALID_S3_CREDENTIALS"

\* C19: a pass has run with credentials that fail verification on a trusted
\* unit without Azure storage, and has restarted the workload
C19_Witness ==
    /\ InvalidPass
    /\ StatusPublished /\ trusted /\ ~ContextAzureStorage.rel
    /\ running
    /\ unitStatus = "INVALID_S3_CREDENTIALS"

(***************************************************************************)
(* C20                                                                     *)
(***************************************************************************)
\* the key, character by character
CharsOf(k) == CHOOSE q \in MappingKeys : StrOf(q) = k

\* C20: canonical serialization with empty-value suppression: for every
\* mapping, contents is made of one line key=value for each entry whose
\* value is not empty and of no other line, the keys in strictly ascending
\* lexicographic order; a key whose value is the empty string has no line.
C20_CanonicalContents ==
    strOut.op = "contents" =>
      LET kept == {k \in DOMAIN str : str[k] \notin {"", None}}
          lines == strOut.lines
          KeyOf(i) == CHOOSE k \in kept : lines[i] = k \o "=" \o str[k]
      IN  /\ Len(lines) = Cardinality(kept)
          /\ \A i \in 1..Len(lines) :
               \E k \in kept : lines[i] = k \o "=" \o str[k]
          /\ \A k \in kept :
               \E i \in 1..Len(lines) : lines[i] = k \o "=" \o str[k]
          /\ \A i, j \in 1..Len(lines) :
               i < j => SeqLess(CharsOf(KeyOf(i)), CharsOf(KeyOf(j)))
          /\ \A k \in DOMAIN str :
               str[k] = "" => \A i \in 1..Len(lines) : lines[i] # k \o "="

\* C20: a mapping with an empty value between two kept entries has been
\* serialized
C20_Witness ==
    /\ strOut.op = "contents"
    /\ DOMAIN str = {"a.a", "a_a", "k"}
    /\ str["a.a"] = "v" /\ str["a_a"] = "" /\ str["k"] = "v"
    /\ strOut.lines = <<"a.a=v", "k=v">>

(***************************************************************************)
(* C21                                                                     *)
(***************************************************************************)
\* the builder has built the configuration from a verified S3 relation
S3Built ==
    /\ strOut.op = "to_dict"
    /\ ~strOut.raises
    /\ s3.rel /\ s3ok

\* the endpoint starts with the six characters "https:"
HttpsScheme(e) ==
    /\ Len(e) >= 6
    /\ e[1] = "h" /\ e[2] = "t" /\ e[3] = "t" /\ e[4] = "p" /\ e[5] = "s"
    /\ e[6] = ":"

\* the four characters ":443" occur in the endpoint
Port443(e) ==
    \E i \in 1..Len(e) :
      /\ i + 3 <= Len(e)
      /\ e[i] = ":" /\ e[i + 1] = "4" /\ e[i + 2] = "4" /\ e[i + 3] = "3"

\* C21: end-to-end S3 scenario: with the S3 relation carrying endpoint
\* https://s3.example.com, access-key AK, secret-key SK, bucket b and path p
\* as the only storage relation and verification succeeding, the built
\* configuration holds spark.hadoop.fs.s3a.endpoint=https://s3.example.com,
\* spark.hadoop.fs.s3a.access.key=AK, spark.eventLog.dir=s3a://b/p (unless
\* the user overrides that key) and the SSL flag "true"; for every endpoint
\* the SSL flag is "true" exactly when the endpoint is absent or empty,
\* starts with "https:" or contains ":443", and "false" otherwise.
C21_S3Scenario ==
    S3Built =>
      /\ (s3.data = S3Full /\ ~azure.rel) =>
            /\ strOut.dict["spark.hadoop.fs.s3a.endpoint"]
                 = "https://s3.example.com"
            /\ strOut.dict["spark.hadoop.fs.s3a.access.key"] = "AK"
            /\ <<"spark", "_", "eventLog", "_", "dir">> \notin DOMAIN peerData
                 => strOut.dict["spark.eventLog.dir"] = "s3a://b/p"
            /\ strOut.dict["spark.hadoop.fs.s3a.connection.ssl.enabled"]
                 = "true"
      /\ strOut.dict["spark.hadoop.fs.s3a.connection.ssl.enabled"]
           \in {"true", "false"}
      /\ strOut.dict["spark.hadoop.fs.s3a.connection.ssl.enabled"] = "true"
           <=> \/ S3Endpoint(s3.data) = <<>>
               \/ HttpsScheme(S3Endpoint(s3.data))
               \/ Port443(S3Endpoint(s3.data))

\* C21: the configuration has been built from the S3 relation of the
\* scenario, the only relation of the unit
C21_Witness ==
    /\ S3Built
    /\ s3.data = S3Full
    /\ ~azure.rel /\ ~pushgateway.rel /\ ~loki.rel
    /\ peerData = EmptyDict
    /\ strOut.dict["spark.eventLog.dir"] = "s3a://b/p"
    /\ strOut.dict["spark.hadoop.fs.s3a.connection.ssl.enabled"] = "true"

\* C21: the flag has been computed for a plain http endpoint on port 443
C21_WitnessPort ==
    /\ S3Built
    /\ S3Endpoint(s3.data) = Http \o SlashSlash \o <<"h", ":", "4", "4", "3">>
    /\ strOut.dict["spark.hadoop.fs.s3a.connection.ssl.enabled"] = "true"

(***************************************************************************)
(* C22                                                                     *)
(***************************************************************************)
\* C22: no-op on an unchanged workload: a pass whose built contents equal
\* the persisted file issues no stop, no restart and no write, so a service
\* that was running before the pass is running after it, and the status
\* resolved afterwards is not NOT_RUNNING.
C22_UnchangedPassKeepsRunning ==
    [][(PassDone' /\ running /\ file.exists
        /\ file.content = contents(lastEvent'.cfg)) =>
         /\ Count(trace', "stop") = 0
         /\ Count(trace', "write") = 0
         /\ Count(trace', "restart") = 0
         /\ running'
         /\ StatusPublished' => unitStatus' # "NOT_RUNNING"]_vars

\* C22: a pass has found the file it had just written and the service it
\* had just restarted, and has published its status
C22_Witness ==
    /\ lastEvent.repeats
    /\ StatusPublished
    /\ Count(lastEvent.before, "restart") = 1
    /\ Count(trace, "write") = 0
    /\ file = [exists |-> TRUE, content |-> contents(lastEvent.cfg)]

(***************************************************************************)
(* C23                                                                     *)
(***************************************************************************)
\* the persisted file is the serialization of the configuration desired
\* for the relations as they are
FileConverged ==
    /\ ~ConfigRaises(UpdateCfg(FALSE, FALSE, FALSE, FALSE))
    /\ file = [exists  |-> TRUE,
               content |-> contents(UpdateCfg(FALSE, FALSE, FALSE, FALSE))]

\* C23: deferred events are eventually reconciled: if the workload becomes
\* ready and stays ready, then under fair redelivery every event deferred
\* for want of readiness is eventually handled, and the persisted file
\* eventually equals the serialized desired configuration for the relation
\* state of that time.
C23_DeferredEventuallyReconciled ==
    (ready /\ deferred # {}) ~> (~ready \/ (deferred = {} /\ FileConverged))

\* C23: an event deferred while the container was away has been delivered
\* again, from the deferred events, once the container was there, and its
\* pass has ended on an exception
C23_Witness ==
    /\ ready
    /\ changes = 1
    /\ lastEvent.src = "deferred"
    /\ lastEvent.outcome = "raised"
    /\ ~file.exists

\* C23, where building the configuration does not raise: the deferred
\* events are handled and the file converges
C23_ReconciledWhenBuildable ==
    (/\ ready /\ deferred # {}
     /\ ~ConfigRaises(UpdateCfg(FALSE, FALSE, FALSE, FALSE)))
    ~> (~ready \/ (deferred = {} /\ FileConverged))

\* C23: a deferred event has been delivered again and its pass has written
\* the file
C23_WitnessBuildable ==
    /\ ready
    /\ changes = 1
    /\ lastEvent.src = "deferred"
    /\ lastEvent.outcome = "done"
    /\ Count(trace, "write") = 1
    /\ FileConverged

(***************************************************************************)
(* C24                                                                     *)
(***************************************************************************)
\* C24: first convergence always reaches a new client: a pass that runs to
\* its end on the leader publishes to every client relation that has never
\* had a configuration published, whatever the built mapping is.
C24_FirstPassPublishes ==
    [][(PassDone' /\ lastEvent'.isLeader) =>
         \A c \in ClientIds :
           (clients[c].rel /\ ~clients[c].props.set) =>
             /\ Publishes(trace', c)
             /\ clients'[c].props.set]_vars

\* C24: a leader pass has built the empty mapping while a client that has
\* never been published to was related
C24_Witness ==
    /\ PassDone /\ lastEvent.isLeader
    /\ to_dict(lastEvent.cfg) = EmptyDict
    /\ clients[1].rel /\ ~clients[1].props.set
    /\ ~Publishes(trace, 1)

\* C24, for a mapping that is not empty: the client is published to
C24_WitnessPublished ==
    /\ PassDone /\ lastEvent.isLeader
    /\ to_dict(lastEvent.cfg) # EmptyDict
    /\ Publishes(trace, 1)
    /\ clients[1].props = [set |-> TRUE, value |-> to_dict(lastEvent.cfg)]

(***************************************************************************)
(* C25                                                                     *)
(***************************************************************************)
\* the sources of the built mapping, in the order of the merge
ConfSources ==
    <<_base_conf,
      _s3_conf(UpdateCfg(FALSE, FALSE, FALSE, FALSE)),
      _azure_storage_conf(UpdateCfg(FALSE, FALSE, FALSE, FALSE)),
      _pushgateway_conf(UpdateCfg(FALSE, FALSE, FALSE, FALSE)),
      _action_conf(UpdateCfg(FALSE, FALSE, FALSE, FALSE)),
      _log_forwarding_conf(UpdateCfg(FALSE, FALSE, FALSE, FALSE))>>

\* the last of the sources srcs that holds key k
LastSource(srcs, k) ==
    CHOOSE i \in 1..6 :
      /\ k \in DOMAIN srcs[i]
      /\ \A j \in (i + 1)..6 : k \notin DOMAIN srcs[j]

LokiKeys == {"spark.executorEnv.LOKI_URL", "spark.kubernetes.driverEnv.LOKI_URL"}

\* C25: merge precedence: the built mapping holds the keys of the base
\* defaults, the S3 keys, the Azure keys, the metrics-sink keys, the user
\* overrides and the log-forwarding keys, each key with the value of the
\* last of these sources that holds it; so a user override wins over every
\* storage and metrics key, and the two LOKI_URL keys of an attached
\* logging relation win over a user override.
C25_MergePrecedence ==
    (strOut.op = "to_dict" /\ ~strOut.raises) =>
      \A srcs \in {ConfSources} :
        /\ DOMAIN strOut.dict = UNION {DOMAIN srcs[i] : i \in 1..6}
        /\ \A k \in DOMAIN strOut.dict :
             /\ strOut.dict[k] = srcs[LastSource(srcs, k)][k]
             /\ (k \in DOMAIN srcs[5] /\ k \notin LokiKeys)
                  => strOut.dict[k] = srcs[5][k]
             /\ (k \in LokiKeys /\ loki.rel)
                  => strOut.dict[k] = srcs[6][k]

\* C25: a mapping has been built in which the user overrides a storage
\* key, a metrics key and a log-forwarding key, with S3, the metrics sink
\* and logging attached
C25_Witness ==
    /\ strOut.op = "to_dict" /\ ~strOut.raises
    /\ DOMAIN peerData = OverrideKeys
    /\ s3.rel /\ s3ok /\ s3.data = S3Full
    /\ pushgateway = Live(PushgatewayFull)
    /\ loki = Live(LokiFull)
    /\ strOut.dict["spark.eventLog.dir"] = "user"
    /\ strOut.dict["spark.metrics.conf.*.sink.prometheus.period"] = "user"
    /\ strOut.dict["spark.executorEnv.LOKI_URL"] = LokiFull["url"]
    /\ strOut.dict["spark.hadoop.fs.s3a.access.key"] = "AK"

(***************************************************************************)
(* C26                                                                     *)
(***************************************************************************)
\* the key the last add-config was called with
AddedKey == BeforeFirstEq(lastEvent.arg)

\* C26: escaped storage: after a successful add-config no key the action
\* has put into the peer relation data holds a literal '.'; the user key
\* is stored in its escaped form (serialize of the key) and is read back
\* through the inverse transform.
C26_EscapedStorage ==
    AddDone =>
      /\ \A k \in DOMAIN peerData \ DOMAIN lastEvent.prior :
           ~Contains(k, <<".">>)
      /\ serialize(AddedKey) \in DOMAIN peerData
      /\ peerData[serialize(AddedKey)] = StrOf(AfterFirstEq(lastEvent.arg))

\* C26: add-config of a key with a dot has succeeded on a data bag that
\* did not hold the key, and the data bag holds the key with its dot
C26_Witness ==
    /\ AddDone
    /\ lastEvent.arg = <<"a", ".", "a", "=", "v">>
    /\ <<"a", ".", "a">> \notin DOMAIN lastEvent.prior
    /\ <<"a", ".", "a">> \in DOMAIN peerData
    /\ serialize(AddedKey) = <<"a", "_", "a">>
    /\ serialize(AddedKey) \notin DOMAIN peerData

(***************************************************************************)
(* C27                                                                     *)
(***************************************************************************)
\* the last step was a provider handler in which a command failed
CommandFailed(name) ==
    /\ lastEvent.name = name
    /\ lastEvent.failed # "none"

\* C27: a failing external command is fatal for the request: when the
\* creation command, or the write/apply of the pod template, fails in
\* account-requested, the handler raises and publishes neither
\* service-account nor namespace on the relation; when the deletion command
\* fails on release the handler raises; in both cases each command is
\* issued at most once and the event is not kept for a later run.
C27_CommandFailureIsFatal ==
    [][/\ CommandFailed("account_requested")' =>
            /\ lastEvent'.outcome = "raised"
            /\ clients' = clients
            /\ ~clients'[lastEvent'.id].granted
            /\ Count(trace', "set_service_account") = 0
            /\ Count(trace', "set_namespace") = 0
            /\ Count(trace', "create") = 1
            /\ Count(trace', "apply_pod_template") <= 1
            /\ (lastEvent'.failed = "create")
                 => Count(trace', "apply_pod_template") = 0
            /\ deferred' = deferred /\ queue' = queue
       /\ CommandFailed("account_released")' =>
            /\ lastEvent'.outcome = "raised"
            /\ Count(trace', "delete") = 1
            /\ deferred' = deferred /\ queue' = queue]_vars

\* C27: the creation command has failed for the second of two clients, the
\* first of which holds its account
C27_Witness ==
    /\ CommandFailed("account_requested")
    /\ lastEvent.failed = "create"
    /\ lastEvent.id = 2
    /\ clients[1].rel /\ clients[1].granted
    /\ clients[2].rel /\ ~clients[2].granted

\* C27: the pod template could not be applied
C27_WitnessTemplate ==
    /\ CommandFailed("account_requested")
    /\ lastEvent.failed = "template"
    /\ ~clients[lastEvent.id].granted

\* C27: the deletion command has failed on release
C27_WitnessDelete ==
    /\ CommandFailed("account_released")
    /\ lastEvent.failed = "delete"
    /\ lastEvent.outcome = "raised"

(***************************************************************************)
(* C28                                                                     *)
(***************************************************************************)
\* the last step was the gone handler of a storage relation, run to its end
StorageGoneDone ==
    /\ lastEvent.name \in {"s3_gone", "azure_gone"}
    /\ lastEvent.outcome = "done"

\* the steps of the environment that attach, rewrite or remove a relation
RelationSteps == {"relation_changed", "relation_departs"}

C28_WitnessAzure ==
    /\ StorageGoneDone
    /\ lastEvent.name = "azure_gone"
    /\ lastEvent.published[1] = ConflictStatus
    /\ ~azure.rel
    /\ s3.rel
    /\ unitStatus # ConflictStatus

(***************************************************************************)
(* C29                                                                     *)
(***************************************************************************)
\* the file left by a pass with the inputs cfg and the verdict verdict
FileOf(cfg, verdict) ==
    [exists |-> TRUE, content |-> contents([cfg EXCEPT !.verify = verdict])]

S3OnlyKeys == DerivedKeys("s3_gone")

\* C29: no caching of the verdict: every pass uses the verdict of the
\* verification as it is at that pass. A pass with the S3 relation attached
\* that finds the file of a pass with the same inputs and the opposite
\* verdict rewrites the file: when the verification now succeeds the file
\* holds the S3 keys and the status is not "Invalid S3 credentials"; when
\* it now fails the file holds no S3 key and the status is the one that the
\* precedence gives to failed credentials ("Invalid S3 credentials" on a
\* trusted unit without Azure storage, never ACTIVE or NOT_RUNNING).
C29_VerdictNotCached ==
    [][\A cfg \in {lastEvent'.cfg} :
         (/\ PassDone'
          /\ cfg.s3.rel
          /\ file = FileOf(cfg, ~s3ok)) =>
           /\ cfg.verify = s3ok
           /\ file' = FileOf(cfg, s3ok)
           /\ file' # file
           /\ Count(trace', "write") = 1
           /\ s3ok =>
                /\ S3OnlyKeys \subseteq DOMAIN to_dict(cfg)
                /\ unitStatus' # "INVALID_S3_CREDENTIALS"
           /\ ~s3ok =>
                /\ S3OnlyKeys \cap DOMAIN to_dict(cfg) = {}
                /\ unitStatus' \notin {"ACTIVE", "NOT_RUNNING"}
                /\ (trusted /\ ~cfg.azure_storage.rel)
                     => unitStatus' = "INVALID_S3_CREDENTIALS"]_vars

\* the second pass of a unit whose verdict changed after the first pass
SecondPassRewrote ==
    /\ PassDone
    /\ lastEvent.name = "pebble_ready"
    /\ lastEvent.src = "queue"
    /\ changes = 1
    /\ Count(trace, "write") = 1
    /\ trusted /\ ~azure.rel

\* C29: the verification failed at the first pass and succeeds at the
\* second, which has put the S3 keys into the file
C29_Witness ==
    /\ SecondPassRewrote
    /\ lastEvent.cfg.verify
    /\ file = FileOf(lastEvent.cfg, TRUE)
    /\ file # FileOf(lastEvent.cfg, FALSE)
    /\ unitStatus = "ACTIVE"

\* C29: the verification succeeded at the first pass and fails at the
\* second, which has taken the S3 keys out of the file
C29_WitnessInvalid ==
    /\ SecondPassRewrote
    /\ ~lastEvent.cfg.verify
    /\ file = FileOf(lastEvent.cfg, FALSE)
    /\ unitStatus = "INVALID_S3_CREDENTIALS"

(***************************************************************************)
(* C30                                                                     *)
(***************************************************************************)
\* Azure storage is attached with data that lack the secret key or name a
\* connection protocol the builder does not know
AzureIncomplete(cfg) ==
    /\ cfg.azure_storage.rel
    /\ \/ "secret-key" \notin DOMAIN cfg.azure_storage.data
       \/ "connection-protocol" \notin DOMAIN cfg.azure_storage.data
       \/ AzureProtocol(cfg.azure_storage.data)
            \notin {"abfs", "abfss", "wasb", "wasbs"}

\* the metrics sink is attached and has not given its push endpoint
PushgatewayIncomplete(cfg) ==
    cfg.pushgateway.rel /\ PushGatewayEndpoint(cfg.pushgateway.data) = None

\* logging is attached and has not given a URL
LokiIncomplete(cfg) ==
    cfg.loki_url.rel /\ LokiUrlOf(cfg.loki_url.data) = None

\* the inputs cfg with every incomplete relation taken away
WithoutIncomplete(cfg) ==
    [cfg EXCEPT
       !.azure_storage = IF AzureIncomplete(cfg) THEN NoRel ELSE @,
       !.pushgateway = IF PushgatewayIncomplete(cfg) THEN NoRel ELSE @,
       !.loki_url = IF LokiIncomplete(cfg) THEN NoRel ELSE @]

\* C30: attached but incomplete relations count as not configured: with
\* Azure storage lacking its secret key or naming an unknown protocol, the
\* metrics sink lacking its push endpoint, or logging lacking its URL,
\* building the configuration does not raise and gives the mapping that is
\* built without that relation (no key derived from it).
C30_IncompleteIsNotConfigured ==
    \A cfg \in {UpdateCfg(FALSE, FALSE, FALSE, FALSE)} :
      (/\ strOut.op = "to_dict"
       /\ WithoutIncomplete(cfg) # cfg
       /\ ~ConfigRaises(WithoutIncomplete(cfg))) =>
        /\ ~strOut.raises
        /\ strOut.dict = to_dict(WithoutIncomplete(cfg))

\* C30: the configuration has been built with Azure storage attached
\* without its secret key, and nothing else attached: the build has raised
C30_Witness ==
    /\ strOut.op = "to_dict"
    /\ azure = Live(AzureNoSecret)
    /\ ~s3.rel /\ ~pushgateway.rel /\ ~loki.rel
    /\ peerData = EmptyDict
    /\ strOut.raises

\* C30: with an unknown connection protocol the build gives storage keys
C30_WitnessProtocol ==
    /\ strOut.op = "to_dict"
    /\ azure = Live(AzureUnknownProtocol)
    /\ ~s3.rel /\ ~pushgateway.rel /\ ~loki.rel
    /\ ~strOut.raises
    /\ "spark.eventLog.enabled" \in DOMAIN strOut.dict
    /\ strOut.dict["spark.eventLog.dir"] = ""

\* C30: with no push endpoint the build gives the keys of the metrics sink
C30_WitnessMetrics ==
    /\ strOut.op = "to_dict"
    /\ pushgateway = Live(EmptyDict)
    /\ ~s3.rel /\ ~azure.rel /\ ~loki.rel
    /\ ~strOut.raises
    /\ strOut.dict["spark.metrics.conf.*.sink.prometheus.period"] = "5"
    /\ strOut.dict["spark.metrics.conf.*.sink.prometheus.pushgateway-address"]
         = None

\* C30: with no URL the build gives the two LOKI_URL keys, empty
C30_WitnessLogging ==
    /\ strOut.op = "to_dict"
    /\ loki = Live(EmptyDict)
    /\ ~s3.rel /\ ~azure.rel /\ ~pushgateway.rel
    /\ ~strOut.raises
    /\ strOut.dict["spark.executorEnv.LOKI_URL"] = ""

(***************************************************************************)
(* C31                                                                     *)
(***************************************************************************)
\* the status the handler of event ev resolves: the gone handlers of the
\* storage relations pass None for the relation that goes away
ResolvedBy(ev, isRunning) ==
    get_app_status(IF ev = "s3_gone" THEN NoRel ELSE ContextS3,
                   IF ev = "azure_gone" THEN NoRel ELSE ContextAzureStorage,
                   isRunning)

C31_WitnessLeader ==
    /\ StatusPublished
    /\ lastEvent.isLeader
    /\ lastEvent.name \in ManualEvents
    /\ unitStatus = "ACTIVE"
    /\ appStatus = "ACTIVE"

(***************************************************************************)
(* C32                                                                     *)
(***************************************************************************)
\* the last step was a pass of one of the gated handlers, not deferred
GatedPass == PassDone /\ lastEvent.name \in GatedEvents

\* in ops, every a comes before every b
AllBefore(ops, a, b) ==
    \A i, j \in 1..Len(ops) : (ops[i].op = a /\ ops[j].op = b) => i < j

\* the order of the steps that follow the build of the configuration
OrderAfterBuild(ops) ==
    /\ Count(ops, "build") = 1
    /\ AllBefore(ops, "build", "write")
    /\ AllBefore(ops, "write", "set_environment")
    /\ AllBefore(ops, "set_environment", "restart")
    /\ AllBefore(ops, "build", "publish")
    /\ AllBefore(ops, "write", "publish")
    /\ AllBefore(ops, "restart", "publish")

\* status resolution comes last: the published status is resolved on the
\* workload as the pass leaves it
StatusAfterPass ==
    StatusPublished => unitStatus = ResolvedBy(lastEvent.name, running)

\* C32: pass ordering: every pass that is not deferred builds the
\* configuration, then takes the write-compare-restart decision, then
\* publishes to the clients, then resolves and publishes the status; no
\* stop or start of the workload comes before the build.
C32_PassOrdering ==
    GatedPass =>
      /\ OrderAfterBuild(trace)
      /\ AllBefore(trace, "build", "stop")
      /\ AllBefore(trace, "build", "restart")

\* C32, without its last clause: the steps after the build are in order
C32_OrderedAfterBuild ==
    GatedPass => OrderAfterBuild(trace)

\* C32: a leader's pass has stopped the workload, built the configuration,
\* rewritten the file, restarted the workload and published to a client
C32_Witness ==
    /\ GatedPass
    /\ trace[1] = Op("stop")
    /\ trace[2] = Op("build")
    /\ Count(trace, "write") = 1
    /\ Count(trace, "restart") = 1
    /\ Publishes(trace, 1)
    /\ StatusPublished

(***************************************************************************)
(* C33                                                                     *)
(***************************************************************************)
\* the step called update (the build may have raised)
UpdateCalled == Count(trace, "stop") = 1

\* C33: write, environment update and restart are coupled: in every pass
\* either the file is written, SPARK_PROPERTIES_FILE is set to its path
\* and the workload is restarted, once each and in this order, or none of
\* the three happens; after the three the file exists, the environment
\* points to it and the workload runs; after none of them the file and the
\* environment are as before and the workload is left stopped.
C33_WriteEnvRestartCoupled ==
    [][UpdateCalled' =>
         /\ Count(trace', "write") \in {0, 1}
         /\ Count(trace', "set_environment") = Count(trace', "write")
         /\ Count(trace', "restart") = Count(trace', "write")
         /\ AllBefore(trace', "write", "set_environment")
         /\ AllBefore(trace', "set_environment", "restart")
         /\ Count(trace', "write") = 1 =>
              /\ file'.exists
              /\ envFile' = SparkPropertiesPath
              /\ running'
         /\ Count(trace', "write") = 0 =>
              /\ file' = file
              /\ envFile' = envFile
              /\ ~running']_vars

\* C33: a pass has written the file, set the environment and restarted
\* the workload
C33_Witness ==
    /\ PassDone
    /\ SubSeq(trace, 3, 5)
         = <<Op("write"), Op("set_environment"), Op("restart")>>
    /\ file.exists /\ envFile = SparkPropertiesPath /\ running

\* C33: a pass over an unchanged file has done none of the three
C33_WitnessNone ==
    /\ PassDone
    /\ lastEvent.repeats
    /\ file.exists
    /\ Count(trace, "write") + Count(trace, "set_environment")
         + Count(trace, "restart") = 0

(***************************************************************************)
(* C34                                                                     *)
(***************************************************************************)
\* existing_content of _compare_and_update_file: "" when the file is not
\* found (the text is kept as the sequence of its lines)
ExistingContent == IF file.exists THEN file.content ELSE <<>>

\* the pass that has just run wrote the file, set the environment and
\* restarted the workload
Rewrote(ops) == Count(ops, "write") = 1 /\ Count(ops, "restart") = 1

\* C34, as stated: a missing file is compared as the empty string: the
\* pass writes and restarts exactly when the new serialized configuration
\* differs from the existing content, "" for a missing file.
C34_MissingComparedAsEmpty ==
    [][PassDone' =>
         (Rewrote(trace') <=> ExistingContent # contents(lastEvent'.cfg))]_vars

\* C34, amended: a missing file is read as "" but is always written,
\* whatever the new content; an existing file is written exactly when its
\* content differs from the new serialized configuration.
C34_MissingAlwaysWritten ==
    [][PassDone' =>
         /\ ~file.exists => Rewrote(trace')
         /\ file.exists =>
              (Rewrote(trace') <=> file.content # contents(lastEvent'.cfg))
         /\ file' = [exists |-> TRUE, content |-> contents(lastEvent'.cfg)]]_vars

\* C34: a pass that found no file has written an empty configuration and
\* restarted the workload
C34_Witness ==
    /\ PassDone
    /\ lastEvent.before = <<>>
    /\ contents(lastEvent.cfg) = <<>>
    /\ file = [exists |-> TRUE, content |-> <<>>]
    /\ Rewrote(trace)
    /\ running

(***************************************************************************)
(* C35                                                                     *)
(***************************************************************************)
\* C35: the status-only handlers bypass the gate and change no
\* configuration: update-status and install are never deferred, publish
\* "Waiting for Pebble" when the workload is not ready, and leave the
\* configuration file, the environment pointer, the running state of the
\* workload and every client snapshot as they are.
C35_StatusOnlyHandlers ==
    [][lastEvent'.name = "update_status" =>
         /\ lastEvent'.outcome = "done"
         /\ deferred' = deferred
         /\ queue' = queue
         /\ trace' = <<>>
         /\ ~ready => unitStatus' = "WAITING_PEBBLE"
         /\ unitStatus' = ResolvedBy("update_status", running)
         /\ file' = file
         /\ envFile' = envFile
         /\ running' = running
         /\ clients' = clients]_vars

\* C35: update-status has run on a unit whose workload is not ready and
\* that holds a deferred event: the status is "Waiting for Pebble"
C35_Witness ==
    /\ lastEvent.name = "update_status"
    /\ lastEvent.outcome = "done"
    /\ ~ready
    /\ deferred # {}
    /\ unitStatus = "WAITING_PEBBLE"

\* C35: update-status has run on a ready unit whose file is written
C35_WitnessReady ==
    /\ lastEvent.name = "update_status"
    /\ ready /\ file.exists /\ running
    /\ unitStatus = "ACTIVE"

(***************************************************************************)
(* C36                                                                     *)
(***************************************************************************)
\* the key=value entries of a published dict, as lines
EntriesOf(d) == {k \o "=" \o d[k] : k \in DOMAIN d}

\* the lines of the persisted file
FileLines == {file.content[i] : i \in 1..Len(file.content)}

\* C36: the client snapshot is derived from the serialized form: after a
\* leader pass the entries published to each client are exactly the
\* key=value lines of the persisted file; a key whose value is the empty
\* string is neither in the file nor in a client's snapshot.
C36_SnapshotIsSerializedForm ==
    (PassDone /\ lastEvent.isLeader) =>
      \A c \in ClientIds :
        clients[c].rel =>
          /\ EntriesOf(spark_properties(c)) = FileLines
          /\ \A k \in DOMAIN spark_properties(c) :
               spark_properties(c)[k] # ""

\* C36: a leader pass with an S3 relation that gives no access key has
\* published the access key entry, empty, to a client; the file has no
\* line for it
C36_Witness ==
    /\ PassDone /\ lastEvent.isLeader
    /\ Publishes(trace, 1)
    /\ "spark.hadoop.fs.s3a.access.key" \in DOMAIN spark_properties(1)
    /\ spark_properties(1)["spark.hadoop.fs.s3a.access.key"] = ""
    /\ "spark.hadoop.fs.s3a.access.key=" \notin FileLines
    /\ "spark.hadoop.fs.s3a.secret.key=SK" \in FileLines

(***************************************************************************)
(* C37                                                                     *)
(***************************************************************************)
\* the configuration sources as a handler of event ev reads them when it
\* starts: the departing relation is passed as None by its gone handler
ReadAtStart(ev) ==
    UpdateCfg(ev = "s3_gone", ev = "azure_gone", ev = "pushgateway_gone",
              ev = "logging_gone")

\* C37: convergence postcondition: at the end of every pass that was not
\* deferred, whatever happened before, the persisted file holds the
\* canonical serialization of the configuration built from the relation
\* state read at the start of that pass, the departing relation being
\* absent in a gone handler.
C37_ConvergencePostcondition ==
    [][(lastEvent'.outcome = "done" /\ lastEvent'.cfg # NoCfg) =>
         \A cfg \in {ReadAtStart(lastEvent'.name)} :
           /\ lastEvent'.cfg = cfg
           /\ file' = [exists |-> TRUE, content |-> contents(cfg)]]_vars

\* C37: a gone pass that followed earlier passes has rewritten a file that
\* held the keys of the departing relation; keys of another source remain
C37_Witness ==
    /\ PassDone
    /\ lastEvent.name \in {"s3_gone", "azure_gone", "logging_gone"}
    /\ Count(trace, "write") = 1
    /\ file.exists /\ file.content # <<>>
    /\ file.content = contents(lastEvent.cfg)
    /\ envFile # "<unset>"

(***************************************************************************)
(* C38                                                                     *)
(***************************************************************************)
\* the handlers that are not reconciliation passes: the administrative
\* actions, the provider handlers and the status-only handlers
NonOwners == {"add_config", "remove_config", "clear_config", "list_config",
              "account_requested", "account_released", "update_status"}

\* the step changed the spark-properties file or the environment entry
ConfigurationWritten == file' # file \/ envFile' # envFile

\* the step ran IntegrationHubManager.update up to its write
WrittenByUpdate ==
    /\ lastEvent'.name \in GatedEvents
    /\ Pos(trace', Op("stop")) = 1
    /\ Count(trace', "write") = 1
    /\ Count(trace', "set_environment") = 1

\* C38: exclusive ownership of the workload configuration: the
\* spark-properties file and the SPARK_PROPERTIES_FILE entry are written
\* only by IntegrationHubManager.update; the administrative actions, the
\* account requested/released handlers and the status-only handlers leave
\* both unchanged. (The container going away takes its files with it; that
\* is no handler of the charm.)
C38_ExclusiveOwnership ==
    [][/\ lastEvent'.name \in NonOwners => ~ConfigurationWritten
       /\ (ConfigurationWritten /\ lastEvent'.name # "container") =>
            WrittenByUpdate]_vars

\* C38: an administrative action has changed the stored configuration while
\* the file and the environment entry, written by an earlier pass, stayed
C38_Witness ==
    /\ lastEvent.name = "add_config"
    /\ lastEvent.outcome = "done"
    /\ peerData # lastEvent.prior
    /\ file.exists /\ envFile # NoEnv
    /\ trace = <<>>

\* C38: a provider handler has run its commands with the file in place
C38_WitnessProvider ==
    /\ lastEvent.name = "account_requested"
    /\ trace # <<>>
    /\ file.exists /\ envFile # NoEnv

\* C38: a status-only handler has run with the file in place
C38_WitnessStatusOnly ==
    /\ lastEvent.name = "update_status"
    /\ lastEvent.outcome = "done"
    /\ file.exists /\ envFile # NoEnv

(***************************************************************************)
(* C39: SparkIntegrationHub._on_collect_status (charm.py)                  *)
(***************************************************************************)
\* the kind of each member of Status (core/context.py)
StatusKind(st) ==
    CASE st = "WAITING_PEBBLE" -> "maintenance"
      [] st = "ACTIVE" -> "active"
      [] OTHER -> "blocked"

\* the severity order by which the collected statuses are ranked
Priority(kind) ==
    CASE kind = "blocked" -> 4
      [] kind = "maintenance" -> 3
      [] kind = "waiting" -> 2
      [] kind = "active" -> 1
      [] OTHER -> 0

collect_status_credentials_first ==
    IF ~ready THEN <<"WAITING_PEBBLE">>
    ELSE (IF ContextS3.rel /\ ~s3ok
          THEN <<"INVALID_S3_CREDENTIALS">> ELSE <<>>)
         \o (IF ~trusted THEN <<"NOT_TRUSTED">> ELSE <<>>)
         \o (IF ContextS3.rel /\ ContextAzureStorage.rel
             THEN <<"MULTIPLE_OBJECT_STORAGE_RELATIONS">> ELSE <<>>)
         \o (IF ~running THEN <<"NOT_RUNNING">> ELSE <<>>)
         \o <<"ACTIVE">>

\* the statuses _on_collect_status adds, in the order it adds them
_on_collect_status ==
    IF ~ready THEN <<"WAITING_PEBBLE">>
    ELSE (IF ~trusted THEN <<"NOT_TRUSTED">> ELSE <<>>)
         \o (IF ContextS3.rel /\ ContextAzureStorage.rel
             THEN <<"MULTIPLE_OBJECT_STORAGE_RELATIONS">> ELSE <<>>)
         \o (IF ContextS3.rel /\ ~s3ok
             THEN <<"INVALID_S3_CREDENTIALS">> ELSE <<>>)
         \o (IF ~running THEN <<"NOT_RUNNING">> ELSE <<>>)
         \o <<"ACTIVE">>

\* the status chosen among the added ones: highest severity, and the first
\* added among those of equal severity
Selected(added) ==
    added[CHOOSE i \in 1..Len(added) :
            \A j \in 1..Len(added) :
              \/ Priority(StatusKind(added[j])) < Priority(StatusKind(added[i]))
              \/ /\ Priority(StatusKind(added[j])) = Priority(StatusKind(added[i]))
                 /\ i <= j]

CollectedStatus == Selected(_on_collect_status)

\* C39: the two status resolvers agree: for every combination of readiness,
\* trust, S3 present, Azure present, verification result and activity, the
\* status selected among those _on_collect_status adds is the status
\* get_app_status returns for the same signals.
C39_ResolversAgree ==
    CollectedStatus = get_app_status(ContextS3, ContextAzureStorage, running)

\* C39: every check fails at once: four blocked statuses and ACTIVE are
\* added, the first added is selected, and it is what update-status set
C39_Witness ==
    /\ lastEvent.name = "update_status" /\ lastEvent.outcome = "done"
    /\ Len(_on_collect_status) = 5
    /\ CollectedStatus = "NOT_TRUSTED"
    /\ unitStatus = "NOT_TRUSTED"

\* C39: the storage conflict is selected before the failed credentials
C39_WitnessConflict ==
    /\ lastEvent.name = "update_status"
    /\ trusted /\ ~s3ok
    /\ Len(_on_collect_status) = 4
    /\ CollectedStatus = ConflictStatus

(***************************************************************************)
(* C40                                                                     *)
(***************************************************************************)
\* IntegrationHub.start on the file f it finds: it raises FileNotFoundError
\* when the spark-properties file does not exist
start(f) == IF f.exists THEN "started" ELSE "FileNotFoundError"

\* the step called workload.restart, hence start
StartInvoked == Count(trace', "restart") > 0

\* C40: the workload is never started without its configuration file:
\* whenever start is invoked (through restart inside update) the file has
\* just been written in the same pass and exists, so start does not fail
\* with FileNotFoundError and the pass does not raise; also on the very
\* first pass, when the file is absent and the built configuration is empty.
C40_StartFindsFile ==
    [][StartInvoked =>
         /\ Count(trace', "restart") = 1
         /\ Count(trace', "write") = 1
         /\ Pos(trace', Op("write")) < Pos(trace', Op("restart"))
         /\ start(file') = "started"
         /\ lastEvent'.outcome # "raised"
         /\ running']_vars

\* the step was a first pass: it found no file and built the empty content
FirstEmptyPass ==
    /\ ~file.exists
    /\ StartInvoked
    /\ file' = [exists |-> TRUE, content |-> <<>>]

\* C40: a first pass that finds no file and builds the empty configuration
\* writes the empty file before it starts the workload
C40_FirstPassStarts == [][FirstEmptyPass => running']_vars

\* C40: the workload has been started on an empty file written in the
\* same pass, before any other pass
C40_Witness ==
    /\ lastEvent.outcome = "done"
    /\ lastEvent.before = <<>>
    /\ Pos(trace, Op("write")) = 3
    /\ Pos(trace, Op("restart")) = 5
    /\ start(file) = "started"
    /\ file.content = <<>>
    /\ running

\* C40: the container came back without its files and the pass on
\* pebble-ready wrote the file anew before the start
C40_WitnessAfterReplacement ==
    /\ lastEvent.name = "pebble_ready"
    /\ lastEvent.outcome = "done"
    /\ Count(trace, "restart") = 1
    /\ file.exists /\ file.content # <<>>
    /\ running

====
